---- MODULE Spec2Model ----
(***************************************************************************)
(* Model of the prompt-driven CLI automation of tacacs_dashboard:          *)
(*   services/web_terminal.py  interactive sessions kept in _SESSIONS      *)
(*   services/olt_telnet.py    one-shot batch runs (telnet_exec_commands)  *)
(* The device is the environment: every child.expect(...) ends with one    *)
(* classified event chosen by the device among those that can end the wait.*)
(***************************************************************************)
EXTENDS Integers, Sequences, FiniteSets, TLC

VARIABLES
  SESSIONS,   \* web_terminal._SESSIONS: session id -> session record
  uuids,      \* how many ids uuid.uuid4() has handed out (ids are 1..uuids)
  spawned,    \* how many telnet children pexpect.spawn has created (1..spawned)
  closed,     \* the children on which close(force=True) has been called
  reaped,     \* the ids _cleanup_expired has removed so far
  now,        \* time.time(), in seconds
  pc,         \* thread -> where the request handled by the thread stands
  loc,        \* thread -> the local variables of the call in progress, with
              \*   sent: what the call has written to its child so far
              \*   out:  what the call gives its caller (value or exception)
  calls,      \* number of send_line calls started so far
  unread,     \* the children that were sent a command line whose prompt no
              \*   call has read yet (the command may still be running)
  b_pc,       \* telnet_exec_commands: position of the batch run
  b_loc,      \* telnet_exec_commands: its local variables
  b_closed    \* the batch child has been closed

vars == <<SESSIONS, uuids, spawned, closed, reaped, now, pc, loc, calls, unread,
          b_pc, b_loc, b_closed>>
ivars == <<SESSIONS, uuids, spawned, closed, reaped, now, pc, loc, calls, unread>>
bvars == <<b_pc, b_loc, b_closed>>

(***************************************************************************)
(* Bounds of the model                                                     *)
(***************************************************************************)
MaxSpawn == 2      \* create_session calls that reach pexpect.spawn
MaxCalls == 2      \* send_line calls
MaxTicks == 3      \* the clock stops after MaxTicks quanta
Quantum  == 450    \* seconds by which the clock advances in one step
MaxMore  == 1      \* "--More--" markers one _read_nonblocking may meet

Threads == {"t1", "t2"}

(***************************************************************************)
(* Program constants                                                       *)
(***************************************************************************)
IDLE_TTL == 15 * 60

NoSid      == 0    \* the blank session id ("" after strip)
UnknownSid == 99   \* an id uuid4 never handed out
NoChild    == 0

(***************************************************************************)
(* The classifier: compiled patterns and the events that end a wait.       *)
(* An event is what the device did while child.expect was waiting.         *)
(***************************************************************************)
Events == {"LOGIN", "PASS", "USER", "PRIV", "DENIED", "LOGINFAIL", "BADPW",
           "MORE", "TIMEOUT", "EOF"}

\* Which pattern of an expect list an event satisfies.  PROMPT_RE accepts both
\* prompt characters; "login incorrect" and "authentication failed" satisfy
\* LOGIN_FAIL_RE and DENIED_RE, "bad password" LOGIN_FAIL_RE alone.
Matches(pat, ev) ==
  CASE pat = "LOGIN_RE"      -> ev = "LOGIN"
    [] pat = "PASS_RE"       -> ev = "PASS"
    [] pat = "PROMPT_RE"     -> ev \in {"USER", "PRIV"}
    [] pat = "DENIED_RE"     -> ev \in {"DENIED", "LOGINFAIL"}
    [] pat = "LOGIN_FAIL_RE" -> ev \in {"LOGINFAIL", "BADPW"}
    [] pat = "MORE_RE"       -> ev = "MORE"
    [] pat = "TIMEOUT"       -> ev = "TIMEOUT"
    [] pat = "EOF"           -> ev = "EOF"
    [] OTHER                 -> FALSE

Raised == -1

\* child.expect(patterns): the 0-based index of the first pattern the event
\* satisfies; a TIMEOUT or EOF the list does not name is raised as an exception.
Expect(patterns, ev) ==
  IF \E i \in 1..Len(patterns) : Matches(patterns[i], ev)
  THEN (CHOOSE i \in 1..Len(patterns) :
          /\ Matches(patterns[i], ev)
          /\ \A j \in 1..(i-1) : ~Matches(patterns[j], ev)) - 1
  ELSE Raised

\* The events that can end child.expect(patterns): one a pattern accepts, the
\* time budget running out, or the peer closing the connection.
Ends(patterns) ==
  {ev \in Events : \E i \in 1..Len(patterns) : Matches(patterns[i], ev)}
    \cup {"TIMEOUT", "EOF"}

\* child.after of a prompt match: the prompt character
After(ev) == IF ev = "USER" THEN ">" ELSE IF ev = "PRIV" THEN "#" ELSE ""

(***************************************************************************)
(* policy.json and secret.env as the calls read them                       *)
(***************************************************************************)
PolicyUsers   == [alice |-> "OLT_ENGINEER", vera |-> "OLT_VIEW"]
PolicyDevices == {"olt1"}
\* roles of policy.json that declare a privilege, with the text declared
PolicyRoles   == [OLT_ENGINEER |-> <<"7">>]
Usernames     == {"", "alice", "vera", "bob"}
Devices       == {"olt1", "ghost"}
LoginPassword == "pw1"
\* TACACS_ENABLE_PASSWORD / OLT_ENABLE15_PASSWORD of secret.env
EnablePasswords == {"", "en15"}

_role_for_user(username) ==
  IF username \in DOMAIN PolicyUsers THEN PolicyUsers[username] ELSE "ValueError"

Min(S) == CHOOSE x \in S : \A y \in S : x <= y
Max(S) == CHOOSE x \in S : \A y \in S : x >= y

\* A declared privilege is a text, a sequence of characters.
Digits == <<"0", "1", "2", "3", "4", "5", "6", "7", "8", "9">>
IsDigit(c)  == \E i \in 1..Len(Digits) : Digits[i] = c
DigitVal(c) == (CHOOSE i \in 1..Len(Digits) : Digits[i] = c) - 1

\* the number a run of digits writes
RECURSIVE Decimal(_)
Decimal(d) ==
  IF d = <<>> THEN 0
  ELSE Decimal(SubSeq(d, 1, Len(d) - 1)) * 10 + DigitVal(d[Len(d)])

\* str.strip() of a text without line ends
TrimSpaces(s) ==
  LET ink == {i \in 1..Len(s) : s[i] # " "}
  IN  IF ink = {} THEN <<>> ELSE SubSeq(s, Min(ink), Max(ink))

\* int(text): <<n>> for an optional sign and digits, <<>> for ValueError
PyInt(s) ==
  LET signed == s # <<>> /\ s[1] \in {"-", "+"}
      d      == IF signed THEN Tail(s) ELSE s
  IN  IF d # <<>> /\ \A i \in 1..Len(d) : IsDigit(d[i])
      THEN <<IF signed /\ s[1] = "-" THEN 0 - Decimal(d) ELSE Decimal(d)>>
      ELSE <<>>

\* a resolution without the fallback table of lines 101-106
EnableLevelIn_notable(roles, role) ==
  IF role \in DOMAIN roles
  THEN LET n == PyInt(TrimSpaces(roles[role]))
       IN  IF n = <<>> THEN 15 ELSE n[1]
  ELSE 15

\* web_terminal.py lines 92-106, for the roles a policy declares
EnableLevelIn(roles, role) ==
  IF role \in DOMAIN roles
  THEN LET n == PyInt(TrimSpaces(roles[role]))
       IN  IF n = <<>> THEN 15 ELSE n[1]
  ELSE IF role = "OLT_VIEW" THEN 1
  ELSE IF role = "OLT_ENGINEER" THEN 7
  ELSE 15

_enable_level_for_role(role) == EnableLevelIn(PolicyRoles, role)

\* privilege.py lines 7-23; value is a text, <<>> when it has no digit
parse_privilege(value, default) ==
  LET at == {i \in 1..Len(value) : IsDigit(value[i])}
  IN  IF at = {} THEN Max({1, Min({15, default})})
      ELSE LET i == Min(at)
               j == Max({k \in i..Len(value) : \A m \in i..k : IsDigit(value[m])})
           IN  Max({1, Min({15, Decimal(SubSeq(value, i, j))})})

\* the candidate secrets of _enable_with_fallbacks, in the order tried
Candidates(username, login_password, enable_pw) ==
  LET c1 == <<login_password>>
      c2 == IF enable_pw # "" /\ enable_pw # login_password
            THEN Append(c1, enable_pw) ELSE c1
      augmented == username \o " " \o login_password
  IN  IF \E i \in 1..Len(c2) : c2[i] = augmented THEN c2 ELSE Append(c2, augmented)

EnableCmd(level) == "enable " \o ToString(level)

(***************************************************************************)
(* Channel primitives                                                      *)
(***************************************************************************)
\* child.sendline(text) / child.send(text)
Line(text) == [nl |-> TRUE,  text |-> text]
Raw(text)  == [nl |-> FALSE, text |-> text]

(***************************************************************************)
(* The registry                                                            *)
(***************************************************************************)
\* _close_nolock(session_id): pop the session and close its child
CloseNolockSessions(S, sid) ==
  [s \in DOMAIN S \ {sid} |-> S[s]]

\* a _close_nolock that pops the session and leaves its child open
CloseNolockClosed_leak(S, cl, sid) == cl

CloseNolockClosed(S, cl, sid) ==
  IF sid \in DOMAIN S THEN cl \cup {S[sid].child} ELSE cl

\* a sweep that also takes the ids idle for exactly IDLE_TTL
Expired_atleast(S, t) == {sid \in DOMAIN S : t - S[sid].last_access >= IDLE_TTL}

\* _cleanup_expired(): the ids whose last access is more than IDLE_TTL ago
Expired(S, t) == {sid \in DOMAIN S : t - S[sid].last_access > IDLE_TTL}

\* a sweep that finds the expired ids and removes none
CleanupSessions_keep(S, t) == S

CleanupSessions(S, t) == [s \in DOMAIN S \ Expired(S, t) |-> S[s]]

CleanupClosed(S, cl, t) == cl \cup {S[sid].child : sid \in Expired(S, t)}

NoLoc == [op |-> "", sid |-> NoSid, child |-> NoChild, username |-> "", level |-> 0,
          role |-> "", privilege |-> <<>>, declares |-> FALSE, chars |-> <<>>,
          prompt |-> "", after |-> "", cands |-> <<>>, ci |-> 0, resps |-> <<>>,
          line |-> "", outp |-> FALSE, ev |-> "", sent |-> <<>>, out |-> ""]

\* the arguments of a provisioning call (none for a plain batch run)
NoReq == [op |-> "", ip |-> "", username |-> "", role |-> "", save |-> FALSE,
          dry_run |-> FALSE, exit_style |-> ""]

NoBatch == [child |-> NoChild, user |-> "", auto_enable |-> FALSE, level |-> 0,
            en_pw |-> "", commands |-> <<>>, i |-> 0, per_cmd |-> <<>>, pages |-> 0,
            denied |-> 0, after |-> "", ev |-> "", eof |-> FALSE, sent |-> <<>>,
            out |-> "", waits |-> 0, buf |-> <<>>, outputs |-> <<>>,
            req |-> NoReq, text |-> <<>>, role |-> "", enable_level |-> <<>>,
            out_chunks |-> <<>>, debug |-> FALSE, max_output_chars |-> 0,
            patterns |-> <<>>, idx |-> Raised]

Init ==
  /\ SESSIONS = <<>>
  /\ uuids = 0
  /\ spawned = 0
  /\ closed = {}
  /\ reaped = {}
  /\ now = 0
  /\ pc = [t \in Threads |-> "idle"]
  /\ loc = [t \in Threads |-> NoLoc]
  /\ calls = 0
  /\ unread = {}
  /\ b_pc = "idle"
  /\ b_loc = NoBatch
  /\ b_closed = FALSE

(***************************************************************************)
(* Ending a call.  A call ends in two steps: the step that decides what    *)
(* the caller gets leaves the call at "ret" with loc.out set; Return hands *)
(* it over and frees the thread.                                           *)
(***************************************************************************)
Return(t) ==
  /\ pc[t] = "ret"
  /\ pc' = [pc EXCEPT ![t] = "idle"]
  /\ loc' = [loc EXCEPT ![t] = NoLoc]
  /\ UNCHANGED <<SESSIONS, uuids, spawned, closed, reaped, now, calls>>
  /\ UNCHANGED bvars
  /\ UNCHANGED unread

\* a failure exit that raises without closing the child
ClosedOnFailure_leak(cl, child) == cl

\* create_session's failure exits: child.close(force=True), then raise
ClosedOnFailure(cl, child) == cl \cup {child}

CreateFails(t, ev, msg) ==
  /\ closed' = ClosedOnFailure(closed, loc[t].child)
  /\ loc' = [loc EXCEPT ![t].out = msg, ![t].ev = ev]
  /\ pc' = [pc EXCEPT ![t] = "ret"]

\* _read_nonblocking(child, budget): answers each "--More--" it reads with a
\* space; k is the number of markers the device shows within the budget.
ReadNonblocking(k) == [i \in 1..k |-> Raw(" ")]

(***************************************************************************)
(* create_session                                                          *)
(***************************************************************************)
LoginWait    == <<"LOGIN_RE", "DENIED_RE", "TIMEOUT", "EOF">>
PasswordWait == <<"PASS_RE", "DENIED_RE", "LOGIN_RE", "TIMEOUT", "EOF">>
PromptWait   == <<"PROMPT_RE", "DENIED_RE", "LOGIN_RE", "PASS_RE", "TIMEOUT", "EOF">>
EnableWait   == <<"PASS_RE", "PROMPT_RE", "DENIED_RE", "TIMEOUT">>
CandWait     == <<"PROMPT_RE", "PASS_RE", "DENIED_RE", "TIMEOUT">>

\* lines 193-204: sweep, check the arguments against policy.json, spawn telnet
CreateBegin(t) ==
  /\ pc[t] = "idle"
  /\ spawned < MaxSpawn
  /\ SESSIONS' = CleanupSessions(SESSIONS, now)
  /\ closed' = CleanupClosed(SESSIONS, closed, now)
  /\ reaped' = reaped \cup Expired(SESSIONS, now)
  /\ \E username \in Usernames, device \in Devices :
       IF \/ username = ""
          \/ device \notin PolicyDevices
          \/ _role_for_user(username) = "ValueError"
       THEN /\ loc' = [loc EXCEPT ![t] = [NoLoc EXCEPT !.op = "create_session",
                                                       !.out = "ValueError"]]
            /\ pc' = [pc EXCEPT ![t] = "ret"]
            /\ UNCHANGED spawned
       ELSE /\ spawned' = spawned + 1
            /\ loc' = [loc EXCEPT ![t] =
                         [NoLoc EXCEPT !.op = "create_session",
                                       !.child = spawned + 1,
                                       !.username = username,
                                       !.level = _enable_level_for_role(
                                                   _role_for_user(username))]]
            /\ pc' = [pc EXCEPT ![t] = "c_login"]
  /\ UNCHANGED <<uuids, now, calls>>
  /\ UNCHANGED bvars
  /\ UNCHANGED unread

\* lines 208-215: wait for the Username prompt, send the username
CreateLogin(t) ==
  /\ pc[t] = "c_login"
  /\ \E ev \in Ends(LoginWait) :
       IF Expect(LoginWait, ev) # 0
       THEN CreateFails(t, ev, "Timeout/EOF waiting for Username prompt")
       ELSE /\ loc' = [loc EXCEPT ![t].sent = @ \o <<Line(loc[t].username)>>,
                                  ![t].ev = ev]
            /\ pc' = [pc EXCEPT ![t] = "c_pass"]
            /\ UNCHANGED closed
  /\ UNCHANGED <<SESSIONS, uuids, spawned, reaped, now, calls>>
  /\ UNCHANGED bvars
  /\ UNCHANGED unread

\* lines 217-224: wait for the Password prompt, send the password
CreatePassword(t) ==
  /\ pc[t] = "c_pass"
  /\ \E ev \in Ends(PasswordWait) :
       IF Expect(PasswordWait, ev) # 0
       THEN CreateFails(t, ev, "Timeout/EOF waiting for Password prompt")
       ELSE /\ loc' = [loc EXCEPT ![t].sent = @ \o <<Line(LoginPassword)>>,
                                  ![t].ev = ev]
            /\ pc' = [pc EXCEPT ![t] = "c_prompt"]
            /\ UNCHANGED closed
  /\ UNCHANGED <<SESSIONS, uuids, spawned, reaped, now, calls>>
  /\ UNCHANGED bvars
  /\ UNCHANGED unread

\* an escalation started at any prompt
NeedsEnable_always(after) == TRUE

\* line 241: escalation is started when the prompt matched ends with '>'
NeedsEnable(after) == after = ">"

\* lines 226-238: the exception the index of the post-login wait leads to
LoginOutcome(idx) ==
  CASE idx = 1        -> "Login denied"
    [] idx \in {2, 3} -> "Login failed (got Username/Password again)"
    [] idx \in {4, 5} -> "Timeout/EOF waiting for prompt after login"
    [] OTHER          -> "ok"

\* lines 226-241 and 146: the outcome of the login; at '>' send "enable <level>"
CreatePrompt(t) ==
  /\ pc[t] = "c_prompt"
  /\ \E ev \in Ends(PromptWait) :
       LET outcome == LoginOutcome(Expect(PromptWait, ev)) IN
       IF outcome # "ok"
       THEN CreateFails(t, ev, outcome)
       ELSE /\ IF NeedsEnable(After(ev))
               THEN /\ loc' = [loc EXCEPT ![t].prompt = After(ev),
                                 ![t].after = After(ev), ![t].ev = ev,
                                 ![t].sent = @ \o <<Line(EnableCmd(loc[t].level))>>]
                    /\ pc' = [pc EXCEPT ![t] = "e_first"]
               ELSE /\ loc' = [loc EXCEPT ![t].prompt = After(ev),
                                 ![t].after = After(ev), ![t].ev = ev]
                    /\ pc' = [pc EXCEPT ![t] = "c_register"]
            /\ UNCHANGED closed
  /\ UNCHANGED <<SESSIONS, uuids, spawned, reaped, now, calls>>
  /\ UNCHANGED bvars
  /\ UNCHANGED unread

(***************************************************************************)
(* _enable_with_fallbacks, called from create_session inside try/except    *)
(***************************************************************************)
\* lines 150-155: what the answer to "enable <level>" leads to
EnableStep(idx) ==
  CASE idx = 0      -> "password"
    [] idx = 1      -> "return"
    [] idx = 2      -> "Enable denied"
    [] idx = 3      -> "Enable timeout"
    [] OTHER        -> "pexpect.EOF"

\* a loop that does not return at the prompt
CandStep_nostop(idx2) ==
  IF idx2 = 2 THEN "Enable denied"
  ELSE IF idx2 = Raised THEN "pexpect.EOF" ELSE "continue"

\* a loop that takes a denial for the end of the escalation
CandStep_denied_ok(idx2) ==
  IF idx2 \in {0, 2} THEN "return"
  ELSE IF idx2 = Raised THEN "pexpect.EOF" ELSE "continue"

\* lines 171-177: what the loop does with the answer to a candidate; a
\* TIMEOUT (index 3) passes the three tests and falls through to the next turn
CandStep(idx2) ==
  CASE idx2 = 0      -> "return"
    [] idx2 = 1      -> "continue"
    [] idx2 = 2      -> "Enable denied"
    [] idx2 = Raised -> "pexpect.EOF"
    [] OTHER         -> "continue"

\* lines 147-167: the answer to "enable <level>"; on a password prompt the
\* candidates are built and the first one is sent
EnableFirst(t) ==
  /\ pc[t] = "e_first"
  /\ \E ev \in Ends(EnableWait) :
       LET step == EnableStep(Expect(EnableWait, ev)) IN
       IF step = "return"
       THEN /\ loc' = [loc EXCEPT ![t].after = After(ev), ![t].ev = ev]
            /\ pc' = [pc EXCEPT ![t] = "c_register"]
            /\ UNCHANGED closed
       ELSE IF step = "password"
       THEN \E enable_pw \in EnablePasswords :
              LET cands == Candidates(loc[t].username, LoginPassword, enable_pw) IN
              /\ loc' = [loc EXCEPT ![t].cands = cands, ![t].ci = 1, ![t].ev = ev,
                                    ![t].sent = @ \o <<Line(cands[1])>>]
              /\ pc' = [pc EXCEPT ![t] = "e_cand"]
              /\ UNCHANGED closed
       ELSE CreateFails(t, ev, step)
  /\ UNCHANGED <<SESSIONS, uuids, spawned, reaped, now, calls>>
  /\ UNCHANGED bvars
  /\ UNCHANGED unread

\* lines 166-179: the answer to candidate ci
EnableCand(t) ==
  /\ pc[t] = "e_cand"
  /\ \E ev \in Ends(CandWait) :
       LET step  == CandStep(Expect(CandWait, ev))
           resps == Append(loc[t].resps, ev)
       IN
       IF step = "return"
       THEN /\ loc' = [loc EXCEPT ![t].after = After(ev), ![t].ev = ev,
                                  ![t].resps = resps]
            /\ pc' = [pc EXCEPT ![t] = "c_register"]
            /\ UNCHANGED closed
       ELSE IF step = "continue" /\ loc[t].ci < Len(loc[t].cands)
       THEN /\ loc' = [loc EXCEPT ![t].ci = @ + 1, ![t].ev = ev, ![t].resps = resps,
                         ![t].sent = @ \o <<Line(loc[t].cands[loc[t].ci + 1])>>]
            /\ UNCHANGED <<pc, closed>>
       ELSE /\ closed' = ClosedOnFailure(closed, loc[t].child)
            /\ loc' = [loc EXCEPT ![t].ev = ev, ![t].resps = resps,
                         ![t].out = IF step = "continue"
                                    THEN "Enable failed (wrong password/timeout)"
                                    ELSE step]
            /\ pc' = [pc EXCEPT ![t] = "ret"]
  /\ UNCHANGED <<SESSIONS, uuids, spawned, reaped, now, calls>>
  /\ UNCHANGED bvars
  /\ UNCHANGED unread

\* a registration under an id that was handed out before
Register_reuse(S, sid, s) == [x \in DOMAIN S \cup {1} |-> IF x = 1 THEN s ELSE S[x]]

\* lines 257-267: _SESSIONS[sid] = {...}; of the session's fields the model
\* keeps those the registry code reads (child, last_access) and created
Register(S, sid, s) == [x \in DOMAIN S \cup {sid} |-> IF x = sid THEN s ELSE S[x]]

\* lines 254-269: drain what is left, take a fresh id, register
CreateRegister(t) ==
  /\ pc[t] = "c_register"
  /\ uuids' = uuids + 1
  /\ SESSIONS' = Register(SESSIONS, uuids + 1,
                          [child |-> loc[t].child, created |-> now, last_access |-> now])
  /\ \E k \in 0..MaxMore :
       loc' = [loc EXCEPT ![t].sent = @ \o ReadNonblocking(k),
                          ![t].sid = uuids + 1, ![t].out = "ok"]
  /\ pc' = [pc EXCEPT ![t] = "ret"]
  /\ UNCHANGED <<spawned, closed, reaped, now, calls>>
  /\ UNCHANGED bvars
  /\ UNCHANGED unread

(***************************************************************************)
(* send_line                                                               *)
(***************************************************************************)
\* The ids a caller can pass: blank, one no session ever had, or one that a
\* create_session call has returned (uuid4 ids cannot be guessed earlier).
Known == (1..uuids) \ {loc[t].sid : t \in {u \in Threads : loc[u].op = "create_session"}}
SidInputs == {NoSid, UnknownSid} \cup Known

Lines == {"show version", "pon ?", "\\x03"}

\* lines 290 and 298: a raw control line, an inline-help line, or a command
LineKind(line) ==
  IF line = "\\x03" THEN "raw" ELSE IF line = "pon ?" THEN "help" ELSE "normal"

CommandWait == <<"PROMPT_RE", "MORE_RE", "TIMEOUT">>
HelpWait    == <<"PROMPT_RE", "TIMEOUT">>

SendEnds(t, out) ==
  /\ loc' = [loc EXCEPT ![t].out = out]
  /\ pc' = [pc EXCEPT ![t] = "ret"]

SendWrites(t, ws, out) ==
  /\ loc' = [loc EXCEPT ![t].sent = @ \o ws, ![t].out = out]
  /\ pc' = [pc EXCEPT ![t] = "ret"]

\* line 273: the sweep send_line starts with
SendBegin(t) ==
  /\ pc[t] = "idle"
  /\ calls < MaxCalls
  /\ calls' = calls + 1
  /\ \E sid \in SidInputs, line \in Lines :
       loc' = [loc EXCEPT ![t] = [NoLoc EXCEPT !.op = "send_line",
                                               !.sid = sid, !.line = line]]
  /\ SESSIONS' = CleanupSessions(SESSIONS, now)
  /\ closed' = CleanupClosed(SESSIONS, closed, now)
  /\ reaped' = reaped \cup Expired(SESSIONS, now)
  /\ pc' = [pc EXCEPT ![t] = "s_lookup"]
  /\ UNCHANGED <<uuids, spawned, now>>
  /\ UNCHANGED bvars
  /\ UNCHANGED unread

\* a lookup that takes an unregistered id for a channel handle
Lookup_stale(S, sid) == IF sid \in DOMAIN S THEN S[sid].child ELSE sid

\* lines 278-283: what the lookup under _LOCK finds
Lookup(S, sid) == IF sid \in DOMAIN S THEN S[sid].child ELSE NoChild

\* _SESSIONS.pop(sid) where the code has _SESSIONS.get(sid)
Touched_pop(S, sid, t) == [x \in DOMAIN S \ {sid} |-> S[x]]

\* line 282: s["last_access"] = time.time()
Touched(S, sid, t) == [S EXCEPT ![sid].last_access = t]

\* lines 274-283
SendLookup(t) ==
  /\ pc[t] = "s_lookup"
  /\ IF loc[t].sid = NoSid
     THEN /\ SendEnds(t, "ValueError: session_id required")
          /\ UNCHANGED SESSIONS
     ELSE IF Lookup(SESSIONS, loc[t].sid) = NoChild
     THEN /\ SendEnds(t, "KeyError: session not found")
          /\ UNCHANGED SESSIONS
     ELSE /\ SESSIONS' = Touched(SESSIONS, loc[t].sid, now)
          /\ loc' = [loc EXCEPT ![t].child = Lookup(SESSIONS, loc[t].sid)]
          /\ pc' = [pc EXCEPT ![t] = "s_" \o LineKind(loc[t].line)]
  /\ UNCHANGED <<uuids, spawned, closed, reaped, now, calls>>
  /\ UNCHANGED bvars
  /\ UNCHANGED unread

\* lines 290-295: one control character, then a short drain
SendRaw(t) ==
  /\ pc[t] = "s_raw"
  /\ IF loc[t].child \in closed
     THEN SendEnds(t, "closed file")
     ELSE \E k \in 0..MaxMore :
            SendWrites(t, <<Raw("^C")>> \o ReadNonblocking(k), "ok")
  /\ UNCHANGED <<SESSIONS, uuids, spawned, closed, reaped, now, calls>>
  /\ UNCHANGED bvars
  /\ UNCHANGED unread

\* lines 336-339: the command line, then a short drain
SendNormal(t) ==
  /\ pc[t] = "s_normal"
  /\ IF loc[t].child \in closed
     THEN SendEnds(t, "closed file")
     ELSE \E k \in 0..MaxMore :
            /\ loc' = [loc EXCEPT ![t].sent =
                         @ \o <<Line(loc[t].line)>> \o ReadNonblocking(k)]
            /\ pc' = [pc EXCEPT ![t] = "s_expect"]
  /\ unread' = IF loc[t].child \in closed THEN unread
               ELSE unread \cup {loc[t].child}
  /\ UNCHANGED <<SESSIONS, uuids, spawned, closed, reaped, now, calls>>
  /\ UNCHANGED bvars

\* lines 341-352: wait 0.6 s for the prompt; every exception is swallowed
SendExpect(t) ==
  /\ pc[t] = "s_expect"
  /\ IF loc[t].child \in closed
     THEN SendEnds(t, "closed file")
     ELSE \E ev \in Ends(CommandWait), k \in 0..MaxMore :
            /\ loc' = [loc EXCEPT ![t].ev = ev, ![t].out = "ok",
                         ![t].sent = @ \o (IF Expect(CommandWait, ev) = 1
                                           THEN <<Raw(" ")>> ELSE <<>>)
                                       \o ReadNonblocking(k)]
            /\ pc' = [pc EXCEPT ![t] = "ret"]
  /\ unread' = IF loc'[t].ev \in {"USER", "PRIV"}
               THEN unread \ {loc[t].child} ELSE unread
  /\ UNCHANGED <<SESSIONS, uuids, spawned, closed, reaped, now, calls>>
  /\ UNCHANGED bvars

\* lines 302-313: the help query without Enter, a drain, Ctrl+U and Enter;
\* outp: the drained text holds a line ending with a prompt character
SendHelp(t) ==
  /\ pc[t] = "s_help"
  /\ IF loc[t].child \in closed
     THEN SendEnds(t, "closed file")
     ELSE \E k \in 0..MaxMore, outp \in BOOLEAN :
            /\ loc' = [loc EXCEPT ![t].outp = outp,
                         ![t].sent = @ \o <<Raw(loc[t].line)>> \o ReadNonblocking(k)
                                       \o <<Raw("^U"), Raw("CR")>>]
            /\ pc' = [pc EXCEPT ![t] = "s_help_wait"]
  /\ UNCHANGED <<SESSIONS, uuids, spawned, closed, reaped, now, calls>>
  /\ UNCHANGED bvars
  /\ UNCHANGED unread

\* lines 316-333: wait for the prompt; without one in the output, Ctrl+C and
\* Enter and one more wait; then the last drain
SendHelpWait(t) ==
  /\ pc[t] \in {"s_help_wait", "s_help_wait2"}
  /\ IF loc[t].child \in closed
     THEN SendEnds(t, "closed file")
     ELSE \E ev \in Ends(HelpWait), k \in 0..MaxMore :
            LET outp == loc[t].outp \/ Expect(HelpWait, ev) = 0 IN
            IF pc[t] = "s_help_wait" /\ ~outp
            THEN /\ loc' = [loc EXCEPT ![t].ev = ev,
                              ![t].sent = @ \o <<Raw("^C"), Raw("CR")>>]
                 /\ pc' = [pc EXCEPT ![t] = "s_help_wait2"]
            ELSE /\ loc' = [loc EXCEPT ![t].ev = ev, ![t].outp = outp,
                              ![t].out = "ok",
                              ![t].sent = @ \o ReadNonblocking(k)]
                 /\ pc' = [pc EXCEPT ![t] = "ret"]
  /\ UNCHANGED <<SESSIONS, uuids, spawned, closed, reaped, now, calls>>
  /\ UNCHANGED bvars
  /\ UNCHANGED unread

(***************************************************************************)
(* close_session, and the clock                                            *)
(***************************************************************************)
\* lines 356-370: _close_nolock under _LOCK
CloseSession(t) ==
  /\ pc[t] = "idle"
  /\ \E sid \in SidInputs :
       /\ SESSIONS' = CloseNolockSessions(SESSIONS, sid)
       /\ closed' = CloseNolockClosed(SESSIONS, closed, sid)
       /\ loc' = [loc EXCEPT ![t] = [NoLoc EXCEPT !.op = "close_session",
                                       !.sid = sid, !.out = "ok",
                                       !.child = Lookup(SESSIONS, sid)]]
  /\ pc' = [pc EXCEPT ![t] = "ret"]
  /\ UNCHANGED <<uuids, spawned, reaped, now, calls>>
  /\ UNCHANGED bvars
  /\ UNCHANGED unread

Tick ==
  /\ now + Quantum <= MaxTicks * Quantum
  /\ now' = now + Quantum
  /\ UNCHANGED <<SESSIONS, uuids, spawned, closed, reaped, pc, loc, calls>>
  /\ UNCHANGED bvars
  /\ UNCHANGED unread

\* the thread whose requests Spec follows, one request at a time
Callers == {"t1"}

Next ==
  \/ \E t \in Callers :
       \/ CreateBegin(t)
       \/ CreateLogin(t)
       \/ CreatePassword(t)
       \/ CreatePrompt(t)
       \/ EnableFirst(t)
       \/ EnableCand(t)
       \/ CreateRegister(t)
       \/ SendBegin(t)
       \/ SendLookup(t)
       \/ SendRaw(t)
       \/ SendNormal(t)
       \/ SendExpect(t)
       \/ SendHelp(t)
       \/ SendHelpWait(t)
       \/ CloseSession(t)
       \/ Return(t)
  \/ Tick

Spec == Init /\ [][Next]_vars

(***************************************************************************)
(* Concurrent requests: the web server handles each request on a thread of *)
(* its own.  One session has been created; the threads call send_line and  *)
(* close_session on ids they hold.                                         *)
(***************************************************************************)
InitConc ==
  /\ SESSIONS = <<[child |-> 1, created |-> 0, last_access |-> 0]>>
  /\ uuids = 1
  /\ spawned = 1
  /\ closed = {}
  /\ reaped = {}
  /\ now = 0
  /\ pc = [t \in Threads |-> "idle"]
  /\ loc = [t \in Threads |-> NoLoc]
  /\ calls = 0
  /\ unread = {}
  /\ b_pc = "idle"
  /\ b_loc = NoBatch
  /\ b_closed = FALSE

NextConc ==
  \E t \in Threads :
    \/ SendBegin(t)
    \/ SendLookup(t)
    \/ SendRaw(t)
    \/ SendNormal(t)
    \/ SendExpect(t)
    \/ SendHelp(t)
    \/ SendHelpWait(t)
    \/ CloseSession(t)
    \/ Return(t)

SpecConc == InitConc /\ [][NextConc]_vars

(***************************************************************************)
(* olt_telnet.telnet_exec_commands: connect, login, enable, run, disconnect *)
(***************************************************************************)
MaxPages == 2      \* "--More--" markers the device shows for one command

BatchUsers    == {"", "zte"}
BatchPassword == "adminpw"
EnablePass    == {"", "en15"}
\* the command lists handed to a run; an empty command is skipped
CommandLists  == {<<"show version", "bogus-cmd">>, <<"conf t", "", "end">>, <<>>}
ROLE_TO_ENABLE == [OLT_VIEW |-> 1, OLT_ENGINEER |-> 7, OLT_ADMIN |-> 15]
Roles         == {"", "OLT_VIEW", "OLT_ADMIN", "OTHER"}
EnableLevels  == {<<>>, <<15>>}

\* lines 94-99.  role is "" for None or empty (`if role' takes both alike);
\* enable_level is <<>> for None and <<n>> for the integer n
_resolve_enable_level(role, enable_level) ==
  IF role # "" THEN (IF role \in DOMAIN ROLE_TO_ENABLE THEN ROLE_TO_ENABLE[role] ELSE 15)
  ELSE IF enable_level # <<>> THEN enable_level[1]
  ELSE 15

BLoginWait     == <<"LOGIN_RE", "PASS_RE", "PROMPT_RE", "DENIED_RE", "TIMEOUT", "EOF">>
BUserWait      == <<"PASS_RE", "DENIED_RE", "TIMEOUT", "EOF">>
BPostLoginWait == <<"PROMPT_RE", "LOGIN_FAIL_RE", "DENIED_RE", "TIMEOUT", "EOF">>
BEnableWait    == <<"PASS_RE", "PROMPT_RE", "DENIED_RE", "TIMEOUT", "EOF">>
BEnablePwWait  == <<"PROMPT_RE", "DENIED_RE", "TIMEOUT", "EOF">>
BCommandWait   == <<"MORE_RE", "PROMPT_RE", "DENIED_RE", "LOGIN_FAIL_RE", "TIMEOUT", "EOF">>

\* a close placed at the end of the try body instead of in finally
FinallyClosed_onsuccess(cl, out) == IF out = "ok" THEN TRUE ELSE cl

\* lines 314-318: the finally clause closes the child on every way out of try
FinallyClosed(cl, out) == TRUE

\* an exception (or the end) inside try: finally, then the caller gets `out'
BatchEnds(ev, out) ==
  /\ b_closed' = FinallyClosed(b_closed, out)
  /\ b_loc' = [b_loc EXCEPT !.out = out, !.ev = ev]
  /\ b_pc' = "ret"

BatchGoes(label, ev, after, ws) ==
  /\ b_loc' = [b_loc EXCEPT !.ev = ev, !.after = after, !.sent = @ \o ws]
  /\ b_pc' = label
  /\ UNCHANGED b_closed

\* lines 266-284: the argument checks, then pexpect.spawn
BatchBegin ==
  /\ b_pc = "idle"
  /\ \E user \in BatchUsers, commands \in CommandLists, auto_enable \in BOOLEAN,
        en_pw \in EnablePass, role \in Roles, enable_level \in EnableLevels :
       IF user = ""
       THEN /\ b_loc' = [NoBatch EXCEPT !.out = "ValueError"]
            /\ b_pc' = "ret"
            /\ UNCHANGED b_closed
       ELSE /\ b_loc' = [NoBatch EXCEPT !.child = 1, !.user = user,
                           !.commands = commands, !.auto_enable = auto_enable,
                           !.en_pw = en_pw,
                           !.level = _resolve_enable_level(role, enable_level)]
            /\ b_pc' = "b_login"
            /\ b_closed' = FALSE
  /\ UNCHANGED ivars

\* lines 289-298: auto_enable decides whether _auto_enable is called; it
\* returns at once unless child.after ends with '>'
AfterLogin(ev, after) ==
  IF b_loc.auto_enable /\ after = ">"
  THEN BatchGoes("b_enable", ev, after, <<Line(EnableCmd(b_loc.level))>>)
  ELSE BatchGoes("b_cmd", ev, after, <<>>)

\* lines 133-151: _login, the first wait
LoginPrompt ==
  /\ b_pc = "b_login"
  /\ \E ev \in Ends(BLoginWait) :
       LET idx == Expect(BLoginWait, ev) IN
       CASE idx = 3 -> BatchEnds(ev, "RuntimeError: Login denied")
         [] idx = 4 -> BatchEnds(ev, "TimeoutError: login prompt")
         [] idx = 5 -> BatchEnds(ev, "RuntimeError: Connection closed (EOF)")
         [] idx = 2 -> AfterLogin(ev, After(ev))
         [] idx = 0 -> BatchGoes("b_user", ev, "", <<Line(b_loc.user)>>)
         [] OTHER   -> BatchGoes("b_postlogin", ev, "", <<Line(BatchPassword)>>)
  /\ UNCHANGED ivars

\* lines 152-156: the wait after the username; its index is dropped and only
\* a denial in the captured text stops the login, then the password is sent
LoginUser ==
  /\ b_pc = "b_user"
  /\ \E ev \in Ends(BUserWait) :
       IF Matches("DENIED_RE", ev)
       THEN BatchEnds(ev, "RuntimeError: Login denied")
       ELSE BatchGoes("b_postlogin", ev, "", <<Line(BatchPassword)>>)
  /\ UNCHANGED ivars

\* lines 158-169: the wait after the password
LoginDone ==
  /\ b_pc = "b_postlogin"
  /\ \E ev \in Ends(BPostLoginWait) :
       LET idx2 == Expect(BPostLoginWait, ev) IN
       CASE idx2 \in {1, 2} -> BatchEnds(ev, "RuntimeError: Login failed")
         [] idx2 = 3        -> BatchEnds(ev, "TimeoutError: prompt after login")
         [] idx2 = 4        -> BatchEnds(ev, "RuntimeError: Connection closed (EOF)")
         [] OTHER           -> AfterLogin(ev, After(ev))
  /\ UNCHANGED ivars

\* lines 186-210: _auto_enable, the answer to "enable <level>"
AutoEnable ==
  /\ b_pc = "b_enable"
  /\ \E ev \in Ends(BEnableWait) :
       LET idx == Expect(BEnableWait, ev) IN
       CASE idx = 0 -> BatchGoes("b_enable_pw", ev, b_loc.after,
                                 <<Line(IF b_loc.en_pw # "" THEN b_loc.en_pw
                                        ELSE BatchPassword)>>)
         [] idx = 1 -> BatchGoes("b_cmd", ev, After(ev), <<>>)
         [] idx = 2 -> BatchEnds(ev, "RuntimeError: Enable denied")
         [] idx = 3 -> BatchEnds(ev, "TimeoutError: Enable timeout")
         [] OTHER   -> BatchEnds(ev, "RuntimeError: Connection closed (EOF)")
  /\ UNCHANGED ivars

\* lines 194-202: the answer to the enable password
AutoEnablePassword ==
  /\ b_pc = "b_enable_pw"
  /\ \E ev \in Ends(BEnablePwWait) :
       IF Expect(BEnablePwWait, ev) # 0
       THEN BatchEnds(ev, "RuntimeError: Enable failed")
       ELSE BatchGoes("b_cmd", ev, After(ev), <<>>)
  /\ UNCHANGED ivars

\* a _run_one_command that records a denied command and goes on
CommandStep_lenient(idx) ==
  IF idx = 4 THEN "TimeoutError: prompt after command"
  ELSE IF idx = 0 THEN "more" ELSE "done"

\* a loop that takes the end of the time budget for the end of the output
CommandStep_timeout_done(idx) ==
  IF idx = 0 THEN "more"
  ELSE IF idx \in {2, 3} THEN "RuntimeError: Command denied/failed" ELSE "done"

\* a loop that takes the pagination marker for the end of the output
CommandStep_nopage(idx) ==
  IF idx \in {2, 3} THEN "RuntimeError: Command denied/failed"
  ELSE IF idx = 4 THEN "TimeoutError: prompt after command" ELSE "done"

\* lines 230-240: what _run_one_command does with the index of its wait
CommandStep(idx) ==
  CASE idx = 0        -> "more"
    [] idx = 1        -> "done"
    [] idx \in {2, 3} -> "RuntimeError: Command denied/failed"
    [] idx = 4        -> "TimeoutError: prompt after command"
    [] OTHER          -> "done"

\* lines 300-312 and 221: the next command of the list is sent (an empty one is
\* skipped); after the last, "exit" is sent.  A write to a child whose peer has
\* gone (eof) may raise OSError.
RunNext ==
  /\ b_pc = "b_cmd"
  /\ IF b_loc.i < Len(b_loc.commands)
     THEN LET cmd == b_loc.commands[b_loc.i + 1] IN
          IF cmd = ""
          THEN /\ b_loc' = [b_loc EXCEPT !.i = @ + 1]
               /\ UNCHANGED <<b_pc, b_closed>>
          ELSE \/ /\ b_loc' = [b_loc EXCEPT !.i = @ + 1, !.pages = 0,
                                 !.waits = 0, !.buf = <<>>,
                                 !.sent = @ \o <<Line(cmd)>>]
                  /\ b_pc' = "b_wait"
                  /\ UNCHANGED b_closed
               \/ /\ b_loc.eof
                  /\ BatchEnds(b_loc.ev, "OSError")
     ELSE /\ b_loc' = [b_loc EXCEPT !.sent = @ \o <<Line("exit")>>]
          /\ b_pc' = "b_exit"
          /\ UNCHANGED b_closed
  /\ UNCHANGED ivars

\* the events that end a wait on the batch child: after the peer has gone
\* every wait ends with EOF
BatchEnds_(patterns) == IF b_loc.eof THEN {"EOF"} ELSE Ends(patterns)

\* What one wait of _run_one_command captures, as the tokens of the text:
\* the device echoes the line it was sent, then shows a screen of output
\* (with a colour escape) and what ended the wait.  _cap is before + after;
\* a TIMEOUT or EOF leaves no text in after.
AfterText(ev) ==
  CASE ev = "MORE"            -> <<"--More--">>
    [] ev \in {"USER", "PRIV"} -> <<"PROMPT">>
    [] ev \in {"TIMEOUT", "EOF"} -> <<>>
    [] OTHER                  -> <<"% denied">>

_cap(cmd, first, ev) ==
  (IF first THEN <<cmd>> ELSE <<>>) \o <<"ESC", "[", "a", "BODY">> \o AfterText(ev)

(***************************************************************************)
(* The normalizer.  A text is the sequence of its characters; of the       *)
(* characters the model keeps those the cleaning tells apart:              *)
(*   "ESC" \x1b, "[" , "a" (a letter), "CR" \r, "LF" \n, "BS" \b,            *)
(* and a word ("BODY", "PROMPT", a command line) for a stretch of text with *)
(* none of the special characters in it.                                   *)
(***************************************************************************)
\* F applied to the value of s, which is computed once
Apply(F(_), s) == CHOOSE r \in {F(v) : v \in {s}} : TRUE

\* s.replace("\r\n", "\n").replace("\r", "\n")
RECURSIVE Newlines(_)
NewlinesFrom(s) ==
  IF s = <<>> THEN <<>>
  ELSE IF Head(s) = "CR"
  THEN IF Len(s) >= 2 /\ s[2] = "LF"
       THEN <<"LF">> \o Newlines(SubSeq(s, 3, Len(s)))
       ELSE <<"LF">> \o Newlines(Tail(s))
  ELSE <<Head(s)>> \o Newlines(Tail(s))

Newlines(s) == Apply(NewlinesFrom, s)

\* regex.sub("", s) for a pattern ESC "[" <final>: the matches are taken from
\* left to right and what is left is not scanned again.  With no parameter
\* or intermediate character in the alphabet, _ANSI_RE's second alternative
\* is ESC "[" followed by one of [@-~] ("a" and "[" here) and its first
\* alternative (ESC and one of [@-Z\\-_]) matches nothing; _CSI_MOVE_RE is
\* ESC "[" followed by a letter.
RECURSIVE SubCsi(_, _)
SubCsiFrom(s, finals) ==
  IF s = <<>> THEN <<>>
  ELSE IF Len(s) >= 3 /\ s[1] = "ESC" /\ s[2] = "[" /\ s[3] \in finals
  THEN SubCsi(SubSeq(s, 4, Len(s)), finals)
  ELSE <<Head(s)>> \o SubCsi(Tail(s), finals)

SubCsi(s, finals) == Apply(LAMBDA v : SubCsiFrom(v, finals), s)

\* lines 46-52
_strip_ansi(s) == SubCsi(SubCsi(Newlines(s), {"a", "["}), {"a"})

\* lines 55-65: a backspace removes the character before it, if there is one
RECURSIVE Backspaces(_, _)
BackspacesFrom(s, buf) ==
  IF s = <<>> THEN buf
  ELSE IF Head(s) = "BS"
  THEN Backspaces(Tail(s), IF buf = <<>> THEN buf ELSE SubSeq(buf, 1, Len(buf) - 1))
  ELSE Backspaces(Tail(s), Append(buf, Head(s)))

Backspaces(s, buf) == Apply(LAMBDA p : BackspacesFrom(p[1], p[2]), <<s, buf>>)

_normalize_backspaces(s) == Backspaces(s, <<>>)

\* re.sub(r"\n{4,}", "\n\n\n", s): of a run of newlines the first three stay
RECURSIVE BlankLines(_, _)
BlankLinesFrom(s, run) ==
  IF s = <<>> THEN <<>>
  ELSE IF Head(s) = "LF"
  THEN (IF run >= 3 THEN <<>> ELSE <<"LF">>) \o BlankLines(Tail(s), run + 1)
  ELSE <<Head(s)>> \o BlankLines(Tail(s), 0)

BlankLines(s, run) == Apply(LAMBDA v : BlankLinesFrom(v, run), s)

\* a cleaning that also drops the echoed command and the prompt
_clean_output_strip(s) ==
  SelectSeq(Tail(BlankLines(_normalize_backspaces(_strip_ansi(s)), 0)),
            LAMBDA tok : tok # "PROMPT")

\* lines 68-73
_clean_output(s) == BlankLines(_normalize_backspaces(_strip_ansi(s)), 0)

\* lines 224-242 and 305-306: _run_one_command's wait; the command's result
\* is appended when it returns.  denied: the command whose wait met a denial.
RunWait ==
  /\ b_pc = "b_wait"
  /\ \E ev \in BatchEnds_(BCommandWait) :
       LET step == CommandStep(Expect(BCommandWait, ev))
           den  == IF Matches("DENIED_RE", ev) \/ Matches("LOGIN_FAIL_RE", ev)
                   THEN b_loc.i ELSE b_loc.denied
           cmd  == b_loc.commands[b_loc.i]
           buf  == b_loc.buf \o _cap(cmd, b_loc.waits = 0, ev)
       IN
       IF step = "more"
       THEN /\ b_loc.pages < MaxPages
            /\ b_loc' = [b_loc EXCEPT !.ev = ev, !.pages = @ + 1,
                           !.waits = @ + 1, !.buf = buf,
                           !.sent = @ \o <<Raw(" ")>>]
            /\ UNCHANGED <<b_pc, b_closed>>
       ELSE IF step = "done"
       THEN /\ b_loc' = [b_loc EXCEPT !.ev = ev, !.eof = (@ \/ ev = "EOF"),
                           !.denied = den, !.waits = @ + 1, !.buf = buf,
                           !.per_cmd = Append(@, cmd),
                           !.outputs = Append(@, _clean_output(buf))]
            /\ b_pc' = "b_cmd"
            /\ UNCHANGED b_closed
       ELSE /\ b_closed' = FinallyClosed(b_closed, step)
            /\ b_loc' = [b_loc EXCEPT !.out = step, !.ev = ev, !.denied = den,
                           !.waits = @ + 1, !.buf = buf]
            /\ b_pc' = "ret"
  /\ UNCHANGED ivars

\* a logout whose timeout reaches the caller
ExitOutcome_raise(ev) == IF ev = "TIMEOUT" THEN "TimeoutError: logout" ELSE "ok"

\* lines 308-312: `try: sendline("exit"); expect([EOF, TIMEOUT], timeout=2)
\* except Exception: pass': however the wait ends, the run goes on to its end
ExitOutcome(ev) == "ok"

\* lines 308-318: the wait after "exit" (exceptions passed over), then finally
BatchExit ==
  /\ b_pc = "b_exit"
  /\ \E ev \in BatchEnds_(<<"EOF", "TIMEOUT">>) : BatchEnds(ev, ExitOutcome(ev))
  /\ UNCHANGED ivars

\* the report or the exception reaches the caller
BatchReturn ==
  /\ b_pc = "ret"
  /\ b_pc' = "idle"
  /\ b_loc' = NoBatch
  /\ UNCHANGED <<b_closed, ivars>>

NextBatch ==
  \/ BatchBegin
  \/ LoginPrompt
  \/ LoginUser
  \/ LoginDone
  \/ AutoEnable
  \/ AutoEnablePassword
  \/ RunNext
  \/ RunWait
  \/ BatchExit
  \/ BatchReturn

SpecBatch == Init /\ [][NextBatch]_vars

\* _run_one_command's loop is run by a live thread and every child.expect
\* ends (with a match, TIMEOUT or EOF): a wait that can end does end
SpecBatchFair == SpecBatch /\ WF_vars(RunWait)

(***************************************************************************)
(* olt_bootstrap.py and olt_provision.py: the three provisioning calls.    *)
(* Each reads its settings from secret.env, builds its command list and    *)
(* either returns it as text (dry_run) or hands it to telnet_exec_commands.*)
(* A text is the sequence of its lines.                                    *)
(***************************************************************************)
AAA_GROUP_NAME_DEFAULT          == "zte1"
AAA_TEMPLATE_ID_DEFAULT         == 2128
SYSTEM_USER_TEMPLATE_ID_DEFAULT == 128

\* OLT_ADMIN_USER's default; OLT_ADMIN_PASSWORD may be unset
AdminUser      == "zte"
AdminPasswords == {"", BatchPassword}
Ops            == {"bootstrap", "provision", "deprovision"}
Ips            == {"", "10.0.0.1"}
ProvUsers      == {"alice", AdminUser}
ProvRoles      == {"", "OLT_VIEW", "OLT_ENGINEER", "OLT_ADMIN"}
ExitStyles     == {"exit", "$"}

role_to_author_template(role) ==
  IF role = "OLT_ADMIN" THEN 128 ELSE IF role = "OLT_ENGINEER" THEN 127 ELSE 126

build_provision_commands(username, role) ==
  <<"conf t", "system-user", "user-name " \o username,
    "bind authentication-template 128",
    "bind authorization-template " \o ToString(role_to_author_template(role))>>
  \o (IF role \in {"OLT_ADMIN", "OLT_ENGINEER"}
      THEN <<"enable-type aaa authentication-template 128">> ELSE <<>>)
  \o <<"exit", "end">>

build_deprovision_commands(username) ==
  <<"conf t", "system-user", "no user-name " \o username, "end">>

_exit_cmd(exit_style) == IF exit_style = "$" THEN "$" ELSE "exit"

build_bootstrap_commands(aaa_group_name, aaa_template_id, sys_template_id, exit_style) ==
  LET g      == aaa_group_name
      aaa_id == ToString(aaa_template_id)
      sys_id == ToString(sys_template_id)
      x      == _exit_cmd(exit_style)
  IN <<"conf t",
       "aaa-accounting-template " \o aaa_id,
       "aaa-accounting-type tacacs",
       "accounting-tacacs-group " \o g,
       "description TACACS_ACCT",
       x,
       "aaa-authentication-template " \o aaa_id,
       "aaa-authentication-type tacacs-local",
       "authentication-tacacs-group " \o g,
       x,
       "aaa-authorization-template " \o aaa_id,
       "aaa-authorization-type tacacs-local",
       "authorization-tacacs-group " \o g,
       x,
       "system-user",
       "account-switch on accounting-template " \o aaa_id,
       "authorization-template " \o sys_id,
       "bind aaa-authorization-template " \o aaa_id,
       x,
       "authentication-template " \o sys_id,
       "bind aaa-authentication-template " \o aaa_id,
       x,
       x,
       "command-authorization 5 " \o aaa_id,
       "end">>

\* the list built for a call, before the save test
BuiltCommands(req) ==
  CASE req.op = "bootstrap" ->
         build_bootstrap_commands(AAA_GROUP_NAME_DEFAULT, AAA_TEMPLATE_ID_DEFAULT,
                                  SYSTEM_USER_TEMPLATE_ID_DEFAULT, req.exit_style)
    [] req.op = "provision" -> build_provision_commands(req.username, req.role)
    [] OTHER                -> build_deprovision_commands(req.username)

\* `if save: cmds.append("write")'
WithSave(cmds, save) == IF save THEN Append(cmds, "write") ELSE cmds

\* a preview that leaves out the save
DryRunText_nowrite(cmds) ==
  <<"DRY-RUN (no changes)">>
  \o SelectSeq(cmds, LAMBDA c : c # "write")

\* "DRY-RUN (no changes)\n" + "\n".join(cmds)
DryRunText(cmds) == <<"DRY-RUN (no changes)">> \o cmds

\* checks that let the admin account through
Refusal_noadmin(req, admin_pass) ==
  IF req.op = "bootstrap" /\ req.ip = "" THEN "ValueError: ip is required"
  ELSE IF admin_pass = "" THEN "RuntimeError: OLT_ADMIN_PASSWORD not set"
  ELSE ""

\* the checks a call makes before it builds its list: "" when they pass
Refusal(req, admin_pass) ==
  IF req.op = "bootstrap" /\ req.ip = "" THEN "ValueError: ip is required"
  ELSE IF admin_pass = "" THEN "RuntimeError: OLT_ADMIN_PASSWORD not set"
  ELSE IF req.op = "deprovision" /\ req.username = AdminUser
  THEN "RuntimeError: Refuse to delete admin_user"
  ELSE ""

\* bootstrap_device_on_olt, provision_user_on_olt or deprovision_user_on_olt
\* up to its return or to telnet_exec_commands' spawn.  cmds is the call's
\* local list, the same in the dry and in the real branch.
ProvisionBegin ==
  /\ b_pc = "idle"
  /\ \E op \in Ops, ip \in Ips, username \in ProvUsers, role \in ProvRoles,
        save \in BOOLEAN, dry_run \in BOOLEAN, exit_style \in ExitStyles,
        admin_pass \in AdminPasswords, en_pw \in EnablePass :
       LET req  == [op |-> op, ip |-> ip,
                    username   |-> IF op = "bootstrap" THEN "" ELSE username,
                    role       |-> IF op = "provision" THEN role ELSE "",
                    save |-> save, dry_run |-> dry_run,
                    exit_style |-> IF op = "bootstrap" THEN exit_style ELSE ""]
           cmds == WithSave(BuiltCommands(req), save)
           why  == Refusal(req, admin_pass)
       IN
       IF why # ""
       THEN /\ b_loc' = [NoBatch EXCEPT !.req = req, !.out = why]
            /\ b_pc' = "ret"
            /\ UNCHANGED b_closed
       ELSE IF dry_run
       THEN /\ b_loc' = [NoBatch EXCEPT !.req = req, !.commands = cmds,
                           !.text = DryRunText(cmds), !.out = "ok"]
            /\ b_pc' = "ret"
            /\ UNCHANGED b_closed
       ELSE IF ip = ""
       THEN /\ b_loc' = [NoBatch EXCEPT !.req = req, !.commands = cmds,
                           !.out = "ValueError"]
            /\ b_pc' = "ret"
            /\ UNCHANGED b_closed
       ELSE /\ b_loc' = [NoBatch EXCEPT !.req = req, !.child = 1,
                           !.user = AdminUser, !.commands = cmds,
                           !.auto_enable = TRUE, !.en_pw = en_pw,
                           !.level = _resolve_enable_level("",
                                       IF op = "bootstrap" THEN <<15>> ELSE <<>>)]
            /\ b_pc' = "b_login"
            /\ b_closed' = FALSE
  /\ UNCHANGED ivars

\* lines 300-318 of olt_telnet.py as a provisioning call sees them: the
\* commands are sent one by one in the list's order; a command's wait either
\* returns or raises, and a raise ends the run; after the last command "exit"
\* is sent and the child is closed
JobCommand ==
  /\ b_pc = "b_cmd"
  /\ IF b_loc.i < Len(b_loc.commands)
     THEN LET cmd == b_loc.commands[b_loc.i + 1] IN
          \/ /\ b_loc' = [b_loc EXCEPT !.i = @ + 1, !.per_cmd = Append(@, cmd),
                            !.sent = @ \o <<Line(cmd)>>]
             /\ UNCHANGED <<b_pc, b_closed>>
          \/ /\ b_closed' = FinallyClosed(b_closed, "raised")
             /\ b_loc' = [b_loc EXCEPT !.i = @ + 1, !.sent = @ \o <<Line(cmd)>>,
                            !.out = "RuntimeError: Command denied/failed"]
             /\ b_pc' = "ret"
     ELSE /\ b_closed' = FinallyClosed(b_closed, "ok")
          /\ b_loc' = [b_loc EXCEPT !.sent = @ \o <<Line("exit")>>, !.out = "ok"]
          /\ b_pc' = "ret"
  /\ UNCHANGED ivars

NextProvision ==
  \/ ProvisionBegin
  \/ LoginPrompt
  \/ LoginUser
  \/ LoginDone
  \/ AutoEnable
  \/ AutoEnablePassword
  \/ JobCommand
  \/ BatchReturn

SpecProvision == Init /\ [][NextProvision]_vars

(***************************************************************************)
(* _resolve_enable_level on its own: a call with any role and any level.   *)
(***************************************************************************)
MaxLevelArg == 17
RoleArgs    == {"", "OLT_VIEW", "OLT_ENGINEER", "OLT_ADMIN", "OTHER"}
LevelArgs   == {<<>>} \cup {<<n>> : n \in 0..MaxLevelArg}

InitResolve ==
  /\ SESSIONS = <<>>
  /\ uuids = 0
  /\ spawned = 0
  /\ closed = {}
  /\ reaped = {}
  /\ now = 0
  /\ pc = [t \in Threads |-> "idle"]
  /\ loc = [t \in Threads |-> NoLoc]
  /\ calls = 0
  /\ unread = {}
  /\ b_pc = "b_resolve"
  /\ \E role \in RoleArgs, enable_level \in LevelArgs :
       b_loc = [NoBatch EXCEPT !.role = role, !.enable_level = enable_level]
  /\ b_closed = FALSE

\* line 290: lvl = _resolve_enable_level(role, enable_level)
Resolve ==
  /\ b_pc = "b_resolve"
  /\ b_loc' = [b_loc EXCEPT
                 !.level = _resolve_enable_level(b_loc.role, b_loc.enable_level)]
  /\ b_pc' = "b_resolved"
  /\ UNCHANGED <<b_closed, ivars>>

NextResolve == Resolve

SpecResolve == InitResolve /\ [][NextResolve]_vars

(***************************************************************************)
(* The two ways a channel is closed, side by side: close_session on a      *)
(* registered terminal session and the end of a batch run.                 *)
(***************************************************************************)
NextClose ==
  \/ \E t \in Callers :
       \/ CloseSession(t)
       \/ Return(t)
  \/ NextBatch

SpecClose == InitConc /\ [][NextClose]_vars

(***************************************************************************)
(* The dashboard process serving its requests one at a time.  A batch run  *)
(* and the terminal sessions share no variable, so the order in which they *)
(* are served makes no difference to either: the batch runs come first.    *)
(* The requests follow each other within one idle period: the clock, which *)
(* no wait of a call reads, stands still.                                  *)
(***************************************************************************)
\* the steps inside a create_session or send_line call
CallStep ==
  \E t \in Callers :
    \/ CreateLogin(t)
    \/ CreatePassword(t)
    \/ CreatePrompt(t)
    \/ EnableFirst(t)
    \/ EnableCand(t)
    \/ CreateRegister(t)
    \/ SendLookup(t)
    \/ SendRaw(t)
    \/ SendNormal(t)
    \/ SendExpect(t)
    \/ SendHelp(t)
    \/ SendHelpWait(t)

\* the steps inside a telnet_exec_commands call
BatchStep ==
  \/ LoginPrompt
  \/ LoginUser
  \/ LoginDone
  \/ AutoEnable
  \/ AutoEnablePassword
  \/ RunNext
  \/ RunWait
  \/ BatchExit

NoTerminalYet ==
  /\ \A t \in Threads : pc[t] = "idle"
  /\ uuids = 0 /\ spawned = 0 /\ calls = 0 /\ now = 0

\* a request is taken up when the one before it has been answered
ServeCreate(t) == b_pc = "idle" /\ CreateBegin(t)
ServeSend(t)   == b_pc = "idle" /\ SendBegin(t)
ServeClose(t)  == b_pc = "idle" /\ CloseSession(t)
ServeBatch     == NoTerminalYet /\ BatchBegin

NextServe ==
  \/ \E t \in Callers :
       \/ ServeCreate(t)
       \/ ServeSend(t)
       \/ ServeClose(t)
       \/ Return(t)
  \/ CallStep
  \/ ServeBatch
  \/ BatchStep
  \/ BatchReturn

SpecServe == Init /\ [][NextServe]_vars

\* Every child.expect of the three calls is given a timeout (lines 209, 218,
\* 227, 147, 168, 317, 327, 342 of web_terminal.py; 115 of olt_telnet.py) and
\* every drain a budget, and the thread serving the request runs: a step of
\* a call that can be taken is taken.
SpecServeFair == SpecServe /\ WF_vars(CallStep) /\ WF_vars(BatchStep)

\* Spec with the scheduling the process gives: a call that has begun goes on
\* to its end and the clock advances; no request is bound to arrive.
SpecReapFair == Spec /\ WF_vars(CallStep) /\ WF_vars(Tick)

(***************************************************************************)
(* _clean_output on its own: a text cut in two at any place, the two       *)
(* chunks cleaned one by one, and the whole text cleaned at once.          *)
(***************************************************************************)
MaxText == 4
Chars   == {"a", "ESC", "[", "CR", "LF", "BS"}
Texts   == UNION {[1..n -> Chars] : n \in 0..MaxText}

InitClean ==
  /\ SESSIONS = <<>>
  /\ uuids = 0
  /\ spawned = 0
  /\ closed = {}
  /\ reaped = {}
  /\ now = 0
  /\ pc = [t \in Threads |-> "idle"]
  /\ loc = [t \in Threads |-> NoLoc]
  /\ calls = 0
  /\ unread = {}
  /\ b_pc = "n_chunks"
  /\ \E raw \in Texts, cut \in 0..MaxText :
       /\ cut <= Len(raw)
       /\ b_loc = [NoBatch EXCEPT !.buf  = SubSeq(raw, 1, cut),
                                  !.text = SubSeq(raw, cut + 1, Len(raw))]
  /\ b_closed = FALSE

\* outputs: the cleaned chunks put together, and the cleaned whole
Clean ==
  /\ b_pc = "n_chunks"
  /\ b_loc' = [b_loc EXCEPT !.outputs =
                 <<_clean_output(b_loc.buf) \o _clean_output(b_loc.text),
                   _clean_output(b_loc.buf \o b_loc.text)>>]
  /\ b_pc' = "n_cleaned"
  /\ UNCHANGED <<b_closed, ivars>>

NextClean == Clean

SpecClean == InitClean /\ [][NextClean]_vars

(***************************************************************************)
(* The report of telnet_exec_commands (lines 320-339) on its own: it is    *)
(* computed from what the run has collected and from two arguments.  The   *)
(* length of a text is the number of its symbols.                          *)
(***************************************************************************)
MaxItems == 2
\* the cleaned output of a command
ItemOutputs == {<<>>, <<"BODY">>, <<"LF", "BODY", "LF">>,
                <<"show version", "BODY", "LF", "BODY", "PROMPT">>}
ItemLists   == UNION {[1..n -> ItemOutputs] : n \in 0..MaxItems}
\* the joined captures of the run
Captures    == {<<>>, <<"LF", "Username:", "Password:", "PROMPT", "LF">>}
\* max_output_chars: 0 also stands for None
MaxOutputChars == {0 - 1, 0, 4, 12}

\* str.strip(): the text without the white space at its two ends
Strip(s) ==
  LET ink == {i \in 1..Len(s) : s[i] \notin {"LF", "CR"}}
  IN  IF ink = {} THEN <<>> ELSE SubSeq(s, Min(ink), Max(ink))

\* "\n".join(lines)
RECURSIVE Join(_)
Join(lines) ==
  IF lines = <<>> THEN <<>>
  ELSE IF Len(lines) = 1 THEN lines[1]
  ELSE lines[1] \o <<"LF">> \o Join(Tail(lines))

\* lines 326-332: an empty line, the command, and its output unless empty
RECURSIVE ItemLines(_, _)
ItemLines(cmds, outs) ==
  IF cmds = <<>> THEN <<>>
  ELSE << <<>>, <<"$ ", Head(cmds)>> >>
       \o (IF Strip(Head(outs)) # <<>> THEN <<Strip(Head(outs))>> ELSE <<>>)
       \o ItemLines(Tail(cmds), Tail(outs))

\* lines 320-334
FullReport(cmds, outs, out_chunks, debug) ==
  LET banner == _clean_output(out_chunks)
      lines  == (IF Strip(banner) # <<>> /\ debug
                 THEN << <<"=== CONNECT/LOGIN (raw-ish) ===">>, Strip(banner) >>
                 ELSE <<>>)
                \o << <<"=== OLT TELNET JOB ===">> >>
                \o ItemLines(cmds, outs)
  IN  Strip(Join(lines)) \o <<"LF">>

Marker == <<"LF", "... (truncated)", "LF">>

\* text[:n]
Take(text, n) ==
  IF n >= 0 THEN SubSeq(text, 1, Min({n, Len(text)}))
  ELSE SubSeq(text, 1, Max({0, Len(text) + n}))

\* a report that is never cut
Truncate_never(text, max_output_chars) == text

\* lines 335-337
Truncate(text, max_output_chars) ==
  IF max_output_chars # 0 /\ Len(text) > max_output_chars
  THEN Take(text, max_output_chars) \o Marker
  ELSE text

InitReport ==
  /\ SESSIONS = <<>>
  /\ uuids = 0
  /\ spawned = 0
  /\ closed = {}
  /\ reaped = {}
  /\ now = 0
  /\ pc = [t \in Threads |-> "idle"]
  /\ loc = [t \in Threads |-> NoLoc]
  /\ calls = 0
  /\ unread = {}
  /\ b_pc = "b_report"
  /\ \E outs \in ItemLists, out_chunks \in Captures, debug \in BOOLEAN,
        max_output_chars \in MaxOutputChars :
       b_loc = [NoBatch EXCEPT !.child = 1,
                  !.per_cmd = [k \in 1..Len(outs) |-> "show version"],
                  !.outputs = outs, !.out_chunks = out_chunks,
                  !.debug = debug, !.max_output_chars = max_output_chars]
  /\ b_closed = TRUE

\* lines 320-339: the report is built, cut and returned
Report ==
  /\ b_pc = "b_report"
  /\ b_loc' = [b_loc EXCEPT !.out = "ok",
                 !.text = Truncate(FullReport(b_loc.per_cmd, b_loc.outputs,
                                              b_loc.out_chunks, b_loc.debug),
                                   b_loc.max_output_chars)]
  /\ b_pc' = "ret"
  /\ UNCHANGED <<b_closed, ivars>>

NextReport == Report

SpecReport == InitReport /\ [][NextReport]_vars

(***************************************************************************)
(* child.expect(patterns) on the text of the channel.  The device's text   *)
(* arrives in pieces; after each read the whole buffer is searched with    *)
(* every pattern of the list, the match that starts first in the buffer    *)
(* wins and, of two that start together, the one named first in the list.  *)
(* A text is a sequence of symbols: a keyword, a prompt character, a line  *)
(* end, or other text.                                                     *)
(***************************************************************************)
MaxStream == 3
Symbols == {"a", "#", ">", "LF", "failed", "Password:", "Username:", "--More--"}
Streams == UNION {[1..n -> Symbols] : n \in 0..MaxStream}
\* the waits after a password, after "enable", after a command (olt_telnet)
\* and after a password (web_terminal)
Waits   == {BPostLoginWait, BEnableWait, BCommandWait, PromptWait}

\* PROMPT_RE = [>#]\s*$ with re.M: where the match that starts at i ends, 0
\* when there is none.  "$" holds at the end of the buffer and before a line
\* end; \s* takes as many line ends as leave "$" true.
PromptEnd(buf, i) ==
  IF buf[i] \notin {">", "#"} THEN 0
  ELSE LET ends == {j \in i..Len(buf) :
                      /\ \A k \in (i+1)..j : buf[k] = "LF"
                      /\ (j = Len(buf) \/ buf[j+1] = "LF")}
       IN  IF ends = {} THEN 0 ELSE Max(ends)

\* where the match of a pattern that starts at i ends, 0 when there is none
MatchEnd(pat, buf, i) ==
  CASE pat = "PROMPT_RE" -> PromptEnd(buf, i)
    [] pat = "LOGIN_RE"  -> IF buf[i] = "Username:" THEN i ELSE 0
    [] pat = "PASS_RE"   -> IF buf[i] = "Password:" THEN i ELSE 0
    [] pat = "DENIED_RE" -> IF buf[i] = "failed" THEN i ELSE 0
    [] pat = "MORE_RE"   -> IF buf[i] = "--More--" THEN i ELSE 0
    [] OTHER             -> 0

\* the places of the buffer where a pattern of the list matches
Found(patterns, buf) ==
  {i \in 1..Len(buf) : \E p \in 1..Len(patterns) : MatchEnd(patterns[p], buf, i) # 0}

\* the match child.expect reports: the earliest start, then the list order
Search(patterns, buf) ==
  LET first == Min(Found(patterns, buf))
      p     == Min({q \in 1..Len(patterns) : MatchEnd(patterns[q], buf, first) # 0})
  IN  [idx |-> p - 1, start |-> first, end |-> MatchEnd(patterns[p], buf, first)]

\* lines 158-169: what _login does with the index of its last wait
PostLoginStep(idx2) ==
  CASE idx2 \in {1, 2} -> "RuntimeError: Login failed"
    [] idx2 = 3        -> "TimeoutError: prompt after login"
    [] idx2 = 4        -> "RuntimeError: EOF after login"
    [] OTHER           -> "ok"

\* what the caller of the wait does with its index
Handled(patterns, idx) ==
  IF patterns = BCommandWait THEN CommandStep(idx)
  ELSE IF patterns = BPostLoginWait THEN PostLoginStep(idx)
  ELSE IF patterns = BEnableWait
       THEN (CASE idx = 0 -> "password"
               [] idx = 1 -> "ok"
               [] idx = 2 -> "RuntimeError: Enable denied"
               [] idx = 3 -> "TimeoutError: Enable timeout"
               [] OTHER   -> "RuntimeError: EOF during enable")
  ELSE IF idx = 0 THEN "ok" ELSE "RuntimeError: Login failed"

InitExpect ==
  /\ SESSIONS = <<>>
  /\ uuids = 0
  /\ spawned = 0
  /\ closed = {}
  /\ reaped = {}
  /\ now = 0
  /\ pc = [t \in Threads |-> "idle"]
  /\ loc = [t \in Threads |-> NoLoc]
  /\ calls = 0
  /\ unread = {}
  /\ b_pc = "x_wait"
  /\ \E stream \in Streams, patterns \in Waits :
       b_loc = [NoBatch EXCEPT !.child = 1, !.text = stream, !.patterns = patterns]
  /\ b_closed = FALSE

\* a piece of the device's text is read into the buffer
ExpectRead ==
  /\ b_pc = "x_wait"
  /\ Found(b_loc.patterns, b_loc.buf) = {}
  /\ \E n \in 1..Len(b_loc.text) :
       b_loc' = [b_loc EXCEPT !.buf = b_loc.buf \o SubSeq(b_loc.text, 1, n),
                              !.text = SubSeq(b_loc.text, n + 1, Len(b_loc.text))]
  /\ UNCHANGED <<b_pc, b_closed, ivars>>

\* a pattern matches: the wait returns its index, before + after is captured
\* and the rest stays in the buffer
ExpectMatch ==
  /\ b_pc = "x_wait"
  /\ Found(b_loc.patterns, b_loc.buf) # {}
  /\ LET m == Search(b_loc.patterns, b_loc.buf)
     IN  b_loc' = [b_loc EXCEPT !.idx = m.idx,
                     !.out_chunks = SubSeq(b_loc.buf, 1, m.end),
                     !.buf = SubSeq(b_loc.buf, m.end + 1, Len(b_loc.buf)),
                     !.out = Handled(b_loc.patterns, m.idx)]
  /\ b_pc' = "x_done"
  /\ UNCHANGED <<b_closed, ivars>>

\* nothing matches within the time budget, or the peer closes the connection
ExpectGivesUp ==
  /\ b_pc = "x_wait"
  /\ Found(b_loc.patterns, b_loc.buf) = {}
  /\ \E ev \in {"TIMEOUT", "EOF"} :
       /\ ev = "EOF" => b_loc.text = <<>>
       /\ b_loc' = [b_loc EXCEPT !.idx = Expect(b_loc.patterns, ev), !.ev = ev,
                      !.out_chunks = b_loc.buf,
                      !.buf = IF ev = "EOF" THEN <<>> ELSE b_loc.buf,
                      !.out = Handled(b_loc.patterns, Expect(b_loc.patterns, ev))]
  /\ b_pc' = "x_done"
  /\ UNCHANGED <<b_closed, ivars>>

NextExpect == ExpectRead \/ ExpectMatch \/ ExpectGivesUp

SpecExpect == InitExpect /\ [][NextExpect]_vars

(***************************************************************************)
(* The level an "enable" command names, for any privilege text a policy    *)
(* may declare: as create_session computes it (web_terminal.py) and as the *)
(* oltcli tool computes it (tools/oltcli.py, through parse_privilege).     *)
(***************************************************************************)
MaxPrivLen == 2
PrivChars  == {"0", "1", "2", "5", "7", "-", " ", "/", "f"}
\* "15 / f" stands for '15 / full'
PrivTexts  == UNION {[1..n -> PrivChars] : n \in 0..MaxPrivLen}
                \cup {<<"1", "5", " ", "/", " ", "f">>}
LevelRoles == {"OLT_VIEW", "OLT_ENGINEER", "OLT_ADMIN", "OTHER"}
\* line 98: r.get("privilege", "15")
DefaultPrivilege == <<"1", "5">>

\* tools/oltcli.py lines 32-37
enable_level_for_role(roles, role) ==
  IF role \in DOMAIN roles THEN parse_privilege(roles[role], 15)
  ELSE IF role \in DOMAIN ROLE_TO_ENABLE THEN ROLE_TO_ENABLE[role] ELSE 15

\* the roles of a policy which lists the role of the call, with the text it
\* declares as privilege or without one, or which does not list the role
PolicyOf(t) ==
  IF loc[t].outp
  THEN loc[t].role :> (IF loc[t].declares THEN loc[t].privilege ELSE DefaultPrivilege)
  ELSE <<>>

InitLevel ==
  /\ SESSIONS = <<>>
  /\ uuids = 0
  /\ spawned = 0
  /\ closed = {}
  /\ reaped = {}
  /\ now = 0
  /\ pc = [t \in Threads |-> IF t \in Callers THEN "l_begin" ELSE "idle"]
  /\ \E role \in LevelRoles, text \in PrivTexts, listed \in BOOLEAN,
        declares \in BOOLEAN :
       loc = [t \in Threads |->
                IF t \in Callers
                THEN [NoLoc EXCEPT !.role = role, !.outp = listed,
                        !.declares = listed /\ declares,
                        !.privilege = IF listed /\ declares THEN text ELSE <<>>]
                ELSE NoLoc]
  /\ calls = 0
  /\ unread = {}
  /\ b_pc = "idle"
  /\ b_loc = NoBatch
  /\ b_closed = FALSE

\* web_terminal.py lines 201 and 146
WebEnable(t) ==
  /\ pc[t] = "l_begin"
  /\ LET level == EnableLevelIn(PolicyOf(t), loc[t].role)
     IN  loc' = [loc EXCEPT ![t].op = "create_session", ![t].level = level,
                            ![t].sent = <<Line(EnableCmd(level))>>]
  /\ pc' = [pc EXCEPT ![t] = "l_sent"]
  /\ UNCHANGED <<SESSIONS, uuids, spawned, closed, reaped, now, calls, unread>>
  /\ UNCHANGED bvars

\* tools/oltcli.py lines 69 and 107
CliEnable(t) ==
  /\ pc[t] = "l_begin"
  /\ LET level == enable_level_for_role(PolicyOf(t), loc[t].role)
     IN  loc' = [loc EXCEPT ![t].op = "oltcli", ![t].level = level,
                            ![t].sent = <<Line(EnableCmd(level))>>]
  /\ pc' = [pc EXCEPT ![t] = "l_sent"]
  /\ UNCHANGED <<SESSIONS, uuids, spawned, closed, reaped, now, calls, unread>>
  /\ UNCHANGED bvars

\* olt_telnet.py line 286: the level of a batch run for the same role, with
\* no enable_level argument
BatchResolve ==
  /\ b_pc = "idle"
  /\ \E t \in Callers :
       b_loc' = [NoBatch EXCEPT !.role = loc[t].role,
                   !.level = _resolve_enable_level(loc[t].role, <<>>)]
  /\ b_pc' = "b_level"
  /\ UNCHANGED <<b_closed, ivars>>

NextLevel == (\E t \in Callers : WebEnable(t) \/ CliEnable(t)) \/ BatchResolve

SpecLevel == InitLevel /\ [][NextLevel]_vars

(***************************************************************************)
(* send_line for any line the caller may hand in: the line is a text, and  *)
(* lines 290 and 298 decide from its characters how it is written.         *)
(***************************************************************************)
MaxLine   == 4
LineChars == {"\\", "x", "3", "?", " ", "LF"}
LineTexts == UNION {[1..n -> LineChars] : n \in 0..MaxLine}

\* the string a text stands for
RECURSIVE Concat(_)
Concat(chars) ==
  IF chars = <<>> THEN ""
  ELSE (IF Head(chars) = "LF" THEN "\n" ELSE Head(chars)) \o Concat(Tail(chars))

\* str.rstrip()
RStrip(chars) ==
  LET ink == {i \in 1..Len(chars) : chars[i] \notin {" ", "LF"}}
  IN  IF ink = {} THEN <<>> ELSE SubSeq(chars, 1, Max(ink))

\* a classification that looks for the "?" first
KindOf_helpfirst(chars) ==
  IF RStrip(chars) # <<>> /\ RStrip(chars)[Len(RStrip(chars))] = "?" THEN "help"
  ELSE IF Len(chars) = 4 /\ chars[1] = "\\" /\ chars[2] = "x" THEN "raw"
  ELSE "normal"

\* lines 290 and 298
KindOf(chars) ==
  IF Len(chars) = 4 /\ chars[1] = "\\" /\ chars[2] = "x" THEN "raw"
  ELSE IF RStrip(chars) # <<>> /\ RStrip(chars)[Len(RStrip(chars))] = "?" THEN "help"
  ELSE "normal"

\* int(text, 16) of two characters: <<n>>, or <<>> for ValueError
HexByte(two) ==
  LET ink == {i \in 1..Len(two) : two[i] \notin {" ", "LF"}}
      d   == IF ink = {} THEN <<>> ELSE SubSeq(two, Min(ink), Max(ink))
  IN  IF d = <<"3">> THEN <<3>>
      ELSE IF d = <<"3", "3">> THEN <<51>>
      ELSE <<>>

\* lines 291-294: the character of the code, or the line itself when the two
\* characters are no hexadecimal number
RawWrite(chars) ==
  LET h == HexByte(SubSeq(chars, 3, 4))
  IN  IF h = <<>> THEN Concat(chars) ELSE IF h[1] = 3 THEN "^C" ELSE "3"

\* lines 271-273
LineBegin(t) ==
  /\ pc[t] = "idle"
  /\ calls < MaxCalls
  /\ calls' = calls + 1
  /\ \E chars \in LineTexts :
       loc' = [loc EXCEPT ![t] = [NoLoc EXCEPT !.op = "send_line", !.sid = 1,
                                    !.chars = chars, !.line = Concat(chars)]]
  /\ SESSIONS' = CleanupSessions(SESSIONS, now)
  /\ closed' = CleanupClosed(SESSIONS, closed, now)
  /\ reaped' = reaped \cup Expired(SESSIONS, now)
  /\ pc' = [pc EXCEPT ![t] = "h_lookup"]
  /\ UNCHANGED <<uuids, spawned, now>>
  /\ UNCHANGED bvars
  /\ UNCHANGED unread

\* lines 278-298
LineLookup(t) ==
  /\ pc[t] = "h_lookup"
  /\ IF Lookup(SESSIONS, loc[t].sid) = NoChild
     THEN /\ SendEnds(t, "KeyError: session not found")
          /\ UNCHANGED SESSIONS
     ELSE /\ SESSIONS' = Touched(SESSIONS, loc[t].sid, now)
          /\ loc' = [loc EXCEPT ![t].child = Lookup(SESSIONS, loc[t].sid)]
          /\ pc' = [pc EXCEPT ![t] =
                      IF KindOf(loc[t].chars) = "raw" THEN "h_raw"
                      ELSE "s_" \o KindOf(loc[t].chars)]
  /\ UNCHANGED <<uuids, spawned, closed, reaped, now, calls>>
  /\ UNCHANGED bvars
  /\ UNCHANGED unread

\* lines 290-295
LineRaw(t) ==
  /\ pc[t] = "h_raw"
  /\ \E k \in 0..MaxMore :
       SendWrites(t, <<Raw(RawWrite(loc[t].chars))>> \o ReadNonblocking(k), "ok")
  /\ UNCHANGED <<SESSIONS, uuids, spawned, closed, reaped, now, calls>>
  /\ UNCHANGED bvars
  /\ UNCHANGED unread

NextHelp ==
  \E t \in Callers :
    \/ LineBegin(t)
    \/ LineLookup(t)
    \/ LineRaw(t)
    \/ SendHelp(t)
    \/ SendHelpWait(t)
    \/ SendNormal(t)
    \/ SendExpect(t)
    \/ Return(t)

SpecHelp == InitConc /\ [][NextHelp]_vars

(***************************************************************************)
(* Properties                                                              *)
(***************************************************************************)
Creating(t)   == loc[t].op = "create_session"
Sending(t)    == loc[t].op = "send_line"
Closing(t)    == loc[t].op = "close_session"
NotFound      == "KeyError: session not found"
LineCount(ws) == Cardinality({i \in 1..Len(ws) : ws[i].nl})
Registered(child) == \E s \in DOMAIN SESSIONS : SESSIONS[s].child = child

\* C1: when create_session ends with an error (connect, authenticate or
\* escalate failed) its child has been closed, the caller gets the error and
\* no session holds the child; when it ends well the session is in the
\* registry under the id returned, before the call returns.  Until then the
\* child of a call in progress is in no session.
C1_CreateSessionAllOrNothing ==
  \A t \in Threads :
    Creating(t) =>
      /\ pc[t] # "ret" => ~Registered(loc[t].child)
      /\ pc[t] = "ret" =>
           IF loc[t].out = "ok"
           THEN /\ loc[t].sid \in DOMAIN SESSIONS
                /\ SESSIONS[loc[t].sid].child = loc[t].child
                /\ loc[t].child \notin closed
           ELSE /\ loc[t].out # ""
                /\ loc[t].sid = NoSid
                /\ ~Registered(loc[t].child)
                /\ loc[t].child # NoChild => loc[t].child \in closed

\* an escalation that ran out of candidates, with another session registered
C1_Witness ==
  \E t \in Threads :
    /\ Creating(t) /\ pc[t] = "ret"
    /\ loc[t].out = "Enable failed (wrong password/timeout)"
    /\ loc[t].child \in closed
    /\ DOMAIN SESSIONS # {}

\* C2: send_line with a session id that is not in the registry (never
\* created, explicitly closed, or reaped) ends with the session-not-found
\* error and has written nothing.
C2_SendLineUnknownId ==
  \A t \in Threads :
    (Sending(t) /\ pc[t] = "ret" /\ loc[t].sid # NoSid
       /\ loc[t].sid \notin DOMAIN SESSIONS) =>
      /\ loc[t].out = NotFound
      /\ loc[t].sent = <<>>
      /\ loc[t].child = NoChild

\* send_line on an id that close_session removed
C2_Witness ==
  \E t \in Threads :
    /\ Sending(t) /\ pc[t] = "ret"
    /\ loc[t].sid \in (1..uuids) \ reaped
    /\ loc[t].out = NotFound

CloseStep(t) == pc[t] = "idle" /\ pc'[t] = "ret" /\ Closing(t)'

\* C3: close_session(id) removes the session and closes its child; on an id
\* that is absent it changes nothing in the registry; it raises in no case.
C3_CloseSession ==
  [][\A t \in Threads :
       CloseStep(t) =>
         LET sid == loc'[t].sid IN
         /\ loc'[t].out = "ok"
         /\ sid \notin DOMAIN SESSIONS'
         /\ sid \in DOMAIN SESSIONS =>
              /\ SESSIONS[sid].child \in closed'
              /\ DOMAIN SESSIONS' = DOMAIN SESSIONS \ {sid}
              /\ \A x \in DOMAIN SESSIONS' : SESSIONS'[x] = SESSIONS[x]
         /\ sid \notin DOMAIN SESSIONS =>
              /\ SESSIONS' = SESSIONS
              /\ closed' = closed]_vars

\* close_session once more on an id it has removed before
C3_Witness ==
  \E t \in Threads :
    /\ Closing(t) /\ pc[t] = "ret"
    /\ loc[t].sid \in (1..uuids) \ reaped
    /\ loc[t].child = NoChild

SweepStep(t) ==
  pc[t] = "idle" /\ (Creating(t)' \/ Sending(t)')

\* C4 as stated: send_line and close_session on a reaped id both give
\* session-not-found.
C4_ReapedIdNotFound ==
  \A t \in Threads :
    (pc[t] = "ret" /\ (Sending(t) \/ Closing(t)) /\ loc[t].sid \in reaped) =>
      loc[t].out = NotFound

\* C4, amended: a session whose last access is more than IDLE_TTL (15
\* minutes) ago is out of the registry after the next sweep and its child is
\* closed; send_line on that id then gives session-not-found, and
\* close_session on it returns without error and changes nothing.
C4_IdleReaping ==
  [][\A t \in Threads :
       /\ SweepStep(t) =>
            \A sid \in DOMAIN SESSIONS :
              now - SESSIONS[sid].last_access > IDLE_TTL =>
                /\ sid \notin DOMAIN SESSIONS'
                /\ SESSIONS[sid].child \in closed'
       /\ (pc[t] # "ret" /\ pc'[t] = "ret" /\ loc'[t].sid \in reaped) =>
            /\ Sending(t)' => loc'[t].out = NotFound /\ loc'[t].sent = <<>>
            /\ Closing(t)' => /\ loc'[t].out = "ok"
                              /\ SESSIONS' = SESSIONS
                              /\ closed' = closed]_vars

\* close_session on an id the sweep has reaped
C4_Witness ==
  \E t \in Threads :
    /\ Closing(t) /\ pc[t] = "ret"
    /\ loc[t].sid \in reaped
    /\ loc[t].out = "ok"

NonEmpty(cmds) == SelectSeq(cmds, LAMBDA c : c # "")
Denial == "RuntimeError: Command denied/failed"
LastLine(ws) ==
  LET idx == {i \in 1..Len(ws) : ws[i].nl} IN
  ws[CHOOSE i \in idx : \A j \in idx : j <= i]

C6_BatchClosesChild ==
  (b_pc = "ret" /\ b_loc.child # NoChild) => b_closed

\* a command that timed out
C6_Witness ==
  /\ b_pc = "ret"
  /\ b_loc.out = "TimeoutError: prompt after command"
  /\ b_loc.child # NoChild
  /\ b_closed

SendLineStep(t) == Sending(t)' /\ <<pc[t], loc[t]>> # <<pc'[t], loc'[t]>>

\* C7 as stated: no step of send_line removes the addressed session from the
\* registry or closes its child.
C7_SendLineNeverRemoves ==
  [][\A t \in Threads :
       (SendLineStep(t) /\ loc'[t].sid \in DOMAIN SESSIONS) =>
         LET sid == loc'[t].sid IN
         /\ sid \in DOMAIN SESSIONS'
         /\ SESSIONS'[sid].child = SESSIONS[sid].child
         /\ SESSIONS[sid].child \notin closed']_vars

\* C7, amended: send_line on a session that its opening sweep does not reap
\* (last access at most IDLE_TTL ago) never removes the session nor closes
\* its child, whatever the device answers; when the call ends the session is
\* registered with the child the call wrote to, still open.
C7_SendLineKeepsSession ==
  [][\A t \in Threads :
       /\ ( /\ SendLineStep(t)
            /\ loc'[t].sid \in DOMAIN SESSIONS
            /\ pc[t] = "idle" =>
                 now - SESSIONS[loc'[t].sid].last_access <= IDLE_TTL ) =>
            LET sid == loc'[t].sid IN
            /\ sid \in DOMAIN SESSIONS'
            /\ SESSIONS'[sid].child = SESSIONS[sid].child
            /\ SESSIONS[sid].child \notin closed'
       /\ (Sending(t)' /\ pc'[t] = "ret" /\ loc'[t].child # NoChild) =>
            /\ loc'[t].sid \in DOMAIN SESSIONS'
            /\ SESSIONS'[loc'[t].sid].child = loc'[t].child
            /\ loc'[t].child \notin closed']_vars

\* a command whose wait for the prompt timed out
C7_Witness ==
  \E t \in Threads :
    /\ Sending(t) /\ pc[t] = "ret"
    /\ loc[t].ev = "TIMEOUT"
    /\ loc[t].sid \in DOMAIN SESSIONS
    /\ SESSIONS[loc[t].sid].child = loc[t].child

UnprivilegedLevel == 1
Prompts    == {"USER", "PRIV"}
Rejections == {"PASS", "DENIED", "LOGINFAIL", "TIMEOUT"}
EnableSent(t) ==
  \E i \in 1..Len(loc[t].sent) : loc[t].sent[i] = Line(EnableCmd(loc[t].level))
\* the lines written after the enable command: the candidates submitted
Submissions(t) ==
  LET ws == loc[t].sent IN
  Cardinality({i \in 1..Len(ws) :
                 /\ ws[i].nl
                 /\ \E j \in 1..(i - 1) : ws[j] = Line(EnableCmd(loc[t].level))})

C9_StopAtFirstSuccess ==
  \A t \in Threads :
    Creating(t) =>
      /\ \A i \in 1..Len(loc[t].resps) :
           loc[t].resps[i] \in Prompts =>
             /\ i = Len(loc[t].resps)
             /\ loc[t].ci = i
             /\ Submissions(t) = i
             /\ pc[t] \in {"c_register", "ret"}
             /\ loc[t].out \in {"", "ok"}
      /\ ( /\ Len(loc[t].cands) > 0
           /\ Len(loc[t].resps) = Len(loc[t].cands)
           /\ \A i \in 1..Len(loc[t].resps) : loc[t].resps[i] \in Rejections ) =>
             /\ pc[t] = "ret"
             /\ loc[t].out \in {"Enable denied",
                                "Enable failed (wrong password/timeout)"}
             /\ loc[t].child \in closed
             /\ loc[t].sid = NoSid
             /\ ~Registered(loc[t].child)

\* three candidates, each answered by the password prompt again
C9_Witness ==
  \E t \in Threads :
    /\ Creating(t) /\ pc[t] = "ret"
    /\ loc[t].resps = <<"PASS", "PASS", "PASS">>
    /\ Len(loc[t].cands) = 3
    /\ loc[t].out = "Enable failed (wrong password/timeout)"
    /\ loc[t].child \in closed

\* C10 as stated: the enable command is sent only at the '>' prompt and for
\* a level above the unprivileged one; at '#' it is not sent; nothing is
\* sent for the escalation once the privileged prompt has been reached.
C10_EscalateOnlyAboveUnprivileged ==
  \A t \in Threads :
    Creating(t) =>
      /\ EnableSent(t) =>
           (loc[t].prompt = ">" /\ loc[t].level > UnprivilegedLevel)
      /\ loc[t].prompt = "#" => ~EnableSent(t)
      /\ loc[t].ev = "PRIV" => pc[t] \in {"c_register", "ret"}

\* C10, amended: the enable command is sent exactly when the prompt after
\* login is '>', whatever the level (level 1 included); when login ends at
\* '#' nothing but the username and the password has been sent as a line;
\* once the privileged prompt has been reached the escalation is over and
\* neither an enable command nor a candidate is sent after it.
C10_EscalateOnlyAtUserPrompt ==
  \A t \in Threads :
    Creating(t) =>
      /\ EnableSent(t) <=> loc[t].prompt = ">"
      /\ loc[t].prompt = "#" => LineCount(loc[t].sent) = 2
      /\ loc[t].ev = "PRIV" =>
           /\ pc[t] \in {"c_register", "ret"}
           /\ Submissions(t) = Len(loc[t].resps)
           /\ LineCount(loc[t].sent) =
                2 + (IF loc[t].prompt = ">" THEN 1 + Len(loc[t].resps) ELSE 0)

\* a view-only user (level 1) at '>' for whom "enable 1" was sent and
\* answered by '#'
C10_Witness ==
  \E t \in Threads :
    /\ Creating(t) /\ pc[t] = "ret" /\ loc[t].out = "ok"
    /\ loc[t].level = UnprivilegedLevel
    /\ loc[t].prompt = ">"
    /\ EnableSent(t)
    /\ loc[t].ev = "PRIV"

\* the outcome the classified event stands for after the secret was sent
AuthOutcome(ev) ==
  CASE ev \in {"USER", "PRIV"} -> "Success"
    [] ev = "DENIED"           -> "LoginDenied"
    [] ev = "TIMEOUT"          -> "LoginTimeout"
    [] ev = "EOF"              -> "ConnectionClosed"
    [] OTHER                   -> "LoginFailed"

\* the outcomes an error message of create_session's post-login wait names
ReportedAs(msg) ==
  CASE msg = "Login denied" -> {"LoginDenied"}
    [] msg = "Timeout/EOF waiting for prompt after login" ->
         {"LoginTimeout", "ConnectionClosed"}
    [] msg = "Login failed (got Username/Password again)" -> {"LoginFailed"}
    [] OTHER -> {}

\* C11: the wait that follows the secret ends with success for a prompt, with
\* LoginDenied for DENIED, with LoginTimeout for a timeout and with
\* ConnectionClosed for a peer-close; the error raised names the outcome of
\* its event and no other.
C11_AuthenticateOutcomes ==
  [][\A t \in Threads :
       (Creating(t) /\ pc[t] = "c_prompt" /\ pc'[t] # "c_prompt") =>
         LET ev == loc'[t].ev IN
         /\ ev \in {"USER", "PRIV"} => pc'[t] # "ret"
         /\ ev \in {"DENIED", "TIMEOUT", "EOF"} =>
              /\ pc'[t] = "ret"
              /\ ReportedAs(loc'[t].out) = {AuthOutcome(ev)}]_vars

BatchTimeouts == {"TimeoutError: login prompt", "TimeoutError: prompt after login",
                  "TimeoutError: Enable timeout",
                  "TimeoutError: prompt after command"}
\* the wait that has just ended is not the one after "exit"
InBatchWait ==
  /\ b_pc \notin {"idle", "b_exit"}
  /\ LineCount(b_loc.sent) > 0 => LastLine(b_loc.sent) # Line("exit")

\* C12: in the batch run a wait that ends with a peer-close raises the
\* connection-closed error and a wait that ends with a timeout raises a
\* timeout error: neither is taken for the other, for success, or passed over.
C12_PeerCloseAndTimeoutDistinct ==
  InBatchWait =>
    /\ b_loc.ev = "EOF" =>
         (b_pc = "ret" /\ b_loc.out = "RuntimeError: Connection closed (EOF)")
    /\ b_loc.ev = "TIMEOUT" =>
         (b_pc = "ret" /\ b_loc.out \in BatchTimeouts)

Count(ws, x) == Cardinality({i \in 1..Len(ws) : ws[i] = x})
\* the 'more' keys written since the last line
MoreKeys(ws) ==
  Cardinality({i \in 1..Len(ws) :
                 ws[i] = Raw(" ") /\ \A j \in i..Len(ws) : ~ws[j].nl})
\* the batch is in, or has just left, _run_one_command for commands[i]
InCommand ==
  /\ b_pc \in {"b_wait", "b_cmd", "ret"}
  /\ b_loc.i > 0
  /\ LineCount(b_loc.sent) > 0
  /\ LastLine(b_loc.sent) = Line(b_loc.commands[b_loc.i])
  /\ b_pc = "b_wait" \/ b_loc.waits > 0

Last(ws) == ws[Len(ws)]

WritesLine(t) ==
  /\ Sending(t)'
  /\ LineCount(loc'[t].sent) > LineCount(loc[t].sent)

\* C15: a command line is written to a session's child only when the command
\* written before it has completed, that is when a call has read its prompt.
C15_NoPipelining ==
  [][\A t \in Threads : WritesLine(t) => loc[t].child \notin unread]_vars

\* C16: every registered id has one child, the same as long as it is
\* registered, and no child is held by two ids; a reaped id is out of the
\* registry; an id that was handed out and is no longer registered is never
\* registered again, a new registration taking an id never handed out before.
C16_RegistryOneToOne ==
  /\ [](/\ \A s1, s2 \in DOMAIN SESSIONS :
             SESSIONS[s1].child = SESSIONS[s2].child => s1 = s2
        /\ DOMAIN SESSIONS \subseteq 1..uuids
        /\ reaped \cap DOMAIN SESSIONS = {}
        /\ \A sid \in DOMAIN SESSIONS : SESSIONS[sid].child \notin closed)
  /\ [][/\ \A sid \in DOMAIN SESSIONS \cap DOMAIN SESSIONS' :
             SESSIONS'[sid].child = SESSIONS[sid].child
        /\ \A sid \in 1..uuids :
             sid \notin DOMAIN SESSIONS => sid \notin DOMAIN SESSIONS'
        /\ \A sid \in DOMAIN SESSIONS :
             sid \notin DOMAIN SESSIONS' => SESSIONS[sid].child \in closed']_vars

\* a second session registered after the first was reaped
C16_Witness ==
  /\ reaped = {1}
  /\ DOMAIN SESSIONS = {2}
  /\ SESSIONS[2].child \notin closed

\* the call has written to its child and has not yet read the answer
InFlight(t) ==
  Sending(t) /\ pc[t] \in {"s_expect", "s_help_wait", "s_help_wait2"}

\* C17: a session's child is driven by one call at a time: no two calls are
\* at once between their write to the same child and their read from it.
C17_OneCallPerChannel ==
  \A t, u \in Threads :
    (InFlight(t) /\ InFlight(u) /\ loc[t].child = loc[u].child) => t = u

(***************************************************************************)
(* C18  dry run of the provisioning calls                                  *)
(***************************************************************************)
ProvisionCall == b_loc.req.op # ""
DryReturn     == b_pc = "ret" /\ ProvisionCall /\ b_loc.req.dry_run /\ b_loc.out = "ok"
RealRun       == ProvisionCall /\ b_loc.child # NoChild

\* the list a call with these arguments hands to telnet_exec_commands
RealRunList(req) == WithSave(BuiltCommands(req), req.save)

\* the lines the command loop of a real run has written so far
LoopLines ==
  LET body == IF b_pc = "ret" /\ b_loc.out = "ok"
              THEN SubSeq(b_loc.sent, 1, Len(b_loc.sent) - 1) ELSE b_loc.sent
  IN SubSeq(body, Len(body) - b_loc.i + 1, Len(body))

\* C18: a provisioning call with dry_run set that returns has spawned no child
\* and written nothing, and the text it returns is the header line followed by
\* exactly the commands a real run with the same arguments is handed, in the
\* same order, ending with "write" if and only if save is set; a real run
\* writes those commands in that order (all of them when it succeeds).
C18_DryRunPreview ==
  /\ DryReturn =>
       /\ b_loc.child = NoChild
       /\ b_loc.sent = <<>>
       /\ Head(b_loc.text) = "DRY-RUN (no changes)"
       /\ Tail(b_loc.text) = RealRunList(b_loc.req)
       /\ (Last(b_loc.text) = "write") <=> b_loc.req.save
  /\ RealRun =>
       /\ b_loc.commands = RealRunList(b_loc.req)
       /\ b_loc.i <= Len(b_loc.commands)
       /\ LoopLines = [j \in 1..b_loc.i |-> Line(b_loc.commands[j])]
       /\ (b_pc = "ret" /\ b_loc.out = "ok") => b_loc.i = Len(b_loc.commands)

C18_Witness ==
  /\ DryReturn
  /\ b_loc.req.op = "bootstrap"
  /\ b_loc.req.save
  /\ Len(b_loc.text) = 27

C18_WitnessReal ==
  /\ RealRun /\ b_pc = "ret" /\ b_loc.out = "ok"
  /\ b_loc.req.op = "provision" /\ b_loc.req.save
  /\ Last(b_loc.per_cmd) = "write"

(***************************************************************************)
(* C19  enable-level resolution                                            *)
(***************************************************************************)
Clamp(n) == IF n < 1 THEN 1 ELSE IF n > 15 THEN 15 ELSE n

\* C19: the level _resolve_enable_level returns is the explicit numeric level,
\* clamped into 1..15, whenever one is given (whatever the role), and it lies
\* in 1..15 in every case.
C19_ExplicitLevelClamped ==
  b_pc = "b_resolved" =>
    /\ b_loc.enable_level # <<>> => b_loc.level = Clamp(b_loc.enable_level[1])
    /\ b_loc.level \in 1..15

(***************************************************************************)
(* C20  closing a channel                                                  *)
(***************************************************************************)
Logout       == Line("exit")
BatchOver    == b_pc = "ret" /\ b_loc.child # NoChild
CloseOver(t) == pc[t] = "ret" /\ loc[t].op = "close_session"

\* C20 as stated: every close of a channel, at the end of a batch run and in
\* close_session alike, has first written the logout command and then closed
\* the channel.
C20_LogoutThenClose ==
  /\ BatchOver => (Count(b_loc.sent, Logout) >= 1 /\ b_closed)
  /\ \A t \in Threads :
       (CloseOver(t) /\ loc[t].child # NoChild) =>
         /\ \E i \in 1..Len(loc[t].sent) : loc[t].sent[i] = Logout
         /\ loc[t].child \in closed

\* C20, amended: the channel is closed on every way out, and no call fails
\* because of the logout; but the logout command is written only by a batch
\* run whose commands all completed (as its last line, and however the wait
\* for it ends the run reports success), never by a batch run that failed and
\* never by close_session, which writes nothing, unregisters the session and
\* closes its channel.
C20_CloseAlwaysLogoutOnSuccess ==
  /\ BatchOver =>
       /\ b_closed
       /\ Count(b_loc.sent, Logout) = (IF b_loc.out = "ok" THEN 1 ELSE 0)
       /\ b_loc.out = "ok" => Last(b_loc.sent) = Logout
  /\ \A t \in Threads :
       CloseOver(t) =>
         /\ loc[t].out = "ok"
         /\ loc[t].sent = <<>>
         /\ loc[t].sid \notin DOMAIN SESSIONS
         /\ loc[t].child # NoChild => loc[t].child \in closed

C20_Witness ==
  /\ BatchOver /\ b_loc.out = "ok" /\ b_loc.ev = "TIMEOUT"
  /\ Last(b_loc.sent) = Logout /\ b_closed
  /\ \E t \in Threads : CloseOver(t) /\ loc[t].child # NoChild

(***************************************************************************)
(* C21  a device that stops sending output                                 *)
(***************************************************************************)
InCall(t) == pc[t] \notin {"idle", "ret"}
InBatch   == b_pc \notin {"idle", "ret"}
LoggedOut == b_loc.sent # <<>> /\ Last(b_loc.sent) = Line("exit")

\* C21: a wait that ends because the device sent nothing within its budget
\* (TIMEOUT) never lets create_session or a batch run go on as if the awaited
\* text had come: create_session registers no session and the batch run
\* starts no further command after it, and a call that returns right after it
\* reports an error (the wait after the batch logout excepted); and every
\* create_session, send_line and telnet_exec_commands call that has started
\* eventually hands a result or an exception to its caller.
C21_StalledDeviceTerminates ==
  /\ [](/\ \A t \in Threads :
             /\ pc[t] = "c_register" => loc[t].ev # "TIMEOUT"
             /\ (pc[t] = "ret" /\ Creating(t) /\ loc[t].ev = "TIMEOUT") =>
                  (loc[t].out # "ok" /\ loc[t].child \in closed)
        /\ b_pc = "b_cmd" => b_loc.ev # "TIMEOUT"
        /\ (b_pc = "ret" /\ b_loc.ev = "TIMEOUT" /\ ~LoggedOut) =>
             (b_loc.out # "ok" /\ b_closed))
  /\ \A t \in Callers : InCall(t) ~> (pc[t] = "ret")
  /\ InBatch ~> (b_pc = "ret")

\* a command wait of a batch run ended by the time budget, and a send_line
\* whose wait for the prompt ended the same way
C21_Witness ==
  /\ b_pc = "ret" /\ b_loc.ev = "TIMEOUT" /\ b_loc.i >= 1
  /\ b_loc.out = "TimeoutError: prompt after command"

C21_WitnessSend ==
  \E t \in Callers : pc[t] = "ret" /\ Sending(t) /\ loc[t].ev = "TIMEOUT"
                       /\ loc[t].out = "ok"

(***************************************************************************)
(* C22  the normalizer on chunks                                           *)
(***************************************************************************)
\* C22: for every text and every place to cut it in two, cleaning the two
\* chunks one by one with _clean_output and putting the results together
\* gives the same text as cleaning the whole.
C22_ChunkwiseEqualsWhole ==
  b_pc = "n_cleaned" => b_loc.outputs[1] = b_loc.outputs[2]

(***************************************************************************)
(* C23  the size of the report                                             *)
(***************************************************************************)
Reported == b_pc = "ret" /\ b_loc.child # NoChild /\ b_loc.text # <<>>
Uncut    == FullReport(b_loc.per_cmd, b_loc.outputs, b_loc.out_chunks, b_loc.debug)

\* C23 as stated: the report is never longer than max_output_chars plus the
\* length of the truncation marker.
C23_ReportBounded ==
  Reported => Len(b_loc.text) <= b_loc.max_output_chars + Len(Marker)

\* C23, amended: with a positive max_output_chars the report is never longer
\* than max_output_chars plus the length of the marker: it is the whole text
\* when that has at most max_output_chars symbols, and else its first
\* max_output_chars symbols followed by the marker.  With max_output_chars 0
\* (or None) the report is the whole text, whatever its length; with a
\* negative value it is the text less its last -max_output_chars symbols,
\* followed by the marker.
C23_ReportBoundedWhenPositive ==
  Reported =>
    LET m == b_loc.max_output_chars IN
    /\ m > 0 =>
         /\ Len(b_loc.text) <= m + Len(Marker)
         /\ Len(Uncut) <= m => b_loc.text = Uncut
         /\ Len(Uncut) > m => b_loc.text = SubSeq(Uncut, 1, m) \o Marker
    /\ m = 0 => b_loc.text = Uncut
    /\ m < 0 =>
         b_loc.text = SubSeq(Uncut, 1, Max({0, Len(Uncut) + m})) \o Marker

\* two commands with long outputs, cut after 12 symbols
C23_Witness ==
  /\ Reported
  /\ b_loc.max_output_chars = 12
  /\ Len(b_loc.per_cmd) = 2
  /\ Len(Uncut) > 12
  /\ Len(b_loc.text) = 12 + Len(Marker)

(***************************************************************************)
(* C24, C25  what a wait reports of a buffer with several matches          *)
(***************************************************************************)
Classified == b_pc = "x_done" /\ b_loc.ev = ""
\* the buffer the wait searched
Searched   == b_loc.out_chunks \o b_loc.buf
Reports    == b_loc.patterns[b_loc.idx + 1]
HoldsDenial(s) == \E i \in 1..Len(s) : s[i] = "failed"
HoldsPrompt(patterns, s) ==
  \E i \in 1..Len(s), p \in 1..Len(patterns) :
    /\ patterns[p] \in {"LOGIN_RE", "PASS_RE", "PROMPT_RE"}
    /\ MatchEnd(patterns[p], s, i) # 0
\* a denial keyword, and after it a ready prompt that ends the buffer
DenialThenReady(s) ==
  \E i \in 1..Len(s), j \in 1..Len(s) :
    i < j /\ s[i] = "failed" /\ PromptEnd(s, j) = Len(s)

\* C24: of a buffer that holds a prompt of the list and a denial keyword the
\* wait reports the prompt, never DENIED; a keyword followed by a ready prompt
\* is the success of the login, of the escalation and of the command.
C24_PromptBeforeDenied ==
  Classified /\ HoldsDenial(Searched) /\ HoldsPrompt(b_loc.patterns, Searched) =>
    /\ Reports # "DENIED_RE"
    /\ DenialThenReady(Searched) =>
         Reports = "PROMPT_RE" /\ b_loc.out \in {"ok", "done"}

\* C25: only the tail of the buffer is classified: a wait that reports a ready
\* prompt found it at the end of the buffer, so a command is complete only
\* when the buffer ends with a ready prompt.
C25_TailOnly ==
  Classified /\ Reports = "PROMPT_RE" =>
    /\ b_loc.buf = <<>>
    /\ \E j \in 1..Len(Searched) : PromptEnd(Searched, j) = Len(Searched)

(***************************************************************************)
(* C26  a login without a password prompt                                  *)
(***************************************************************************)
\* C26: when the wait after the username ends without a password prompt (its
\* time budget runs out), the password is sent all the same and the login
\* goes on to its last wait, in telnet_exec_commands and in create_session:
\* the missing prompt alone fails neither.
C26_MissingPasswordPromptSkipped ==
  /\ b_pc = "b_postlogin" /\ b_loc.ev = "TIMEOUT" =>
       b_loc.sent[Len(b_loc.sent)] = Line(BatchPassword)
  /\ \A t \in Callers :
       pc[t] = "ret" /\ loc[t].op = "create_session" /\ loc[t].ev = "TIMEOUT" =>
         loc[t].out # "Timeout/EOF waiting for Password prompt"

(***************************************************************************)
(* C27  the idle reaper                                                    *)
(***************************************************************************)
\* C27: a registered session whose idle time has passed the threshold is
\* eventually removed from the registry (stated for the sessions that expire
\* while the caller may still place a request).
C27_IdleSessionEventuallyReaped ==
  \A sid \in 1..MaxSpawn :
    (/\ sid \in DOMAIN SESSIONS
     /\ now - SESSIONS[sid].last_access > IDLE_TTL
     /\ calls < MaxCalls)
      ~> (sid \notin DOMAIN SESSIONS)

(***************************************************************************)
(* C28  a session in use is not reaped                                     *)
(***************************************************************************)
\* C28: the sweep at the start of a call removes only sessions whose last
\* access is strictly more than IDLE_TTL before the current time; a lookup of
\* send_line that finds its session sets the last access to the current time;
\* the last access of a registered session never decreases, and it is never
\* before the session's creation time nor after the current time.
C28_InUseNeverReaped ==
  /\ [][\A t \in Threads :
          /\ SweepStep(t) =>
               \A sid \in DOMAIN SESSIONS :
                 sid \notin DOMAIN SESSIONS' =>
                   now - SESSIONS[sid].last_access > IDLE_TTL
          /\ (Sending(t) /\ pc[t] = "s_lookup" /\ pc'[t] \notin {"s_lookup", "ret"}) =>
               /\ loc[t].sid \in DOMAIN SESSIONS'
               /\ SESSIONS'[loc[t].sid].last_access = now
          /\ \A sid \in DOMAIN SESSIONS \cap DOMAIN SESSIONS' :
               /\ SESSIONS'[sid].last_access >= SESSIONS[sid].last_access
               /\ SESSIONS'[sid].created = SESSIONS[sid].created]_vars
  /\ [](\A sid \in DOMAIN SESSIONS :
          /\ SESSIONS[sid].created <= SESSIONS[sid].last_access
          /\ SESSIONS[sid].last_access <= now)

\* a send_line that began exactly IDLE_TTL after the creation of its session
\* found it still registered and set its last access
C28_Witness ==
  \E t \in Callers :
    /\ Sending(t) /\ pc[t] = "ret"
    /\ loc[t].sid \in DOMAIN SESSIONS
    /\ SESSIONS[loc[t].sid].last_access - SESSIONS[loc[t].sid].created = IDLE_TTL

(***************************************************************************)
(* C29  the order of a batch                                               *)
(***************************************************************************)
\* the commands of the list (an empty string is no command)
Supplied == SelectSeq(b_loc.commands, LAMBDA c : c # "")
CommandTexts ==
  UNION {{cl[k] : k \in 1..Len(cl)} : cl \in CommandLists} \ {""}
\* the command lines written to the channel so far
Written == SelectSeq(b_loc.sent, LAMBDA w : w.nl /\ w.text \in CommandTexts)

\* C29: the commands are written in the order supplied, each when the wait
\* before it has ended with a ready prompt, and a run that returns its report
\* has one result per command, in that order, under the text that was sent.
C29_InOrderAfterPrompt ==
  b_loc.child # NoChild /\ b_loc.req = NoReq =>
    /\ Len(Written) <= Len(Supplied)
    /\ \A k \in 1..Len(Written) : Written[k] = Line(Supplied[k])
    /\ (b_pc = "b_wait" /\ b_loc.waits = 0) => b_loc.ev \in {"USER", "PRIV"}
    /\ (b_pc = "ret" /\ b_loc.out = "ok") => b_loc.per_cmd = Supplied

(***************************************************************************)
(* C30  the level of an enable command                                     *)
(***************************************************************************)
\* C30: whatever text the policy declares as the privilege of the role, the
\* "enable <level>" line that is sent names a level within 1..15.
C30_EnableLevelInRange ==
  \A t \in Callers :
    pc[t] = "l_sent" =>
      /\ loc[t].sent = <<Line(EnableCmd(loc[t].level))>>
      /\ loc[t].level \in 1..15

(***************************************************************************)
(* C31  the role table in the two implementations                          *)
(***************************************************************************)
TableLevel(role) ==
  CASE role = "OLT_VIEW"     -> 1
    [] role = "OLT_ENGINEER" -> 7
    [] OTHER                 -> 15
BothResolved(t) == pc[t] = "l_sent" /\ Creating(t) /\ b_pc = "b_level"

EndsInQuery(chars) == chars # <<>> /\ chars[Len(chars)] = "?"
\* the last character other than white space is "?"
QueryLine(chars) ==
  \E i \in 1..Len(chars) :
    chars[i] = "?" /\ \A j \in (i + 1)..Len(chars) : chars[j] \in {" ", "LF"}
\* four characters, the first two "\x"
ControlLine(chars) == Len(chars) = 4 /\ SubSeq(chars, 1, 2) = <<"\\", "x">>
\* the call has left the first part of its exchange
PastFirstWrites(t) == Sending(t) /\ pc[t] \in {"s_help_wait", "s_help_wait2", "s_expect", "ret"}
Positions(ws, w) == {i \in 1..Len(ws) : ws[i] = w}
\* the writes of a help exchange up to the Enter that follows Ctrl+U
HelpWrites(t) ==
  /\ loc[t].sent[1] = Raw(loc[t].line)
  /\ \A i \in 1..Len(loc[t].sent) : ~loc[t].sent[i].nl
  /\ Cardinality(Positions(loc[t].sent, Raw("^U"))) = 1
  /\ \A i \in Positions(loc[t].sent, Raw("^U")) :
       /\ i < Len(loc[t].sent) /\ loc[t].sent[i + 1] = Raw("CR")
       /\ \A j \in 2..(i - 1) : loc[t].sent[j] = Raw(" ")
\* Ctrl+C is written in this step
WritesInterrupt(t) ==
  Cardinality(Positions(loc'[t].sent, Raw("^C"))) >
    Cardinality(Positions(loc[t].sent, Raw("^C")))
InterruptOnlyWithoutPrompt ==
  [][\A t \in Callers :
       /\ (QueryLine(loc[t].chars) /\ ~ControlLine(loc[t].chars)
             /\ WritesInterrupt(t)) =>
            /\ pc[t] = "s_help_wait" /\ ~loc[t].outp
            /\ loc'[t].ev \notin {"USER", "PRIV"}
       /\ (pc[t] = "s_help_wait" /\ pc'[t] # "s_help_wait"
             /\ ~loc[t].outp /\ loc'[t].ev \notin {"USER", "PRIV"}) =>
            WritesInterrupt(t)]_vars

\* C32 as stated: a line that ends in "?" is written without a line
\* terminator, Ctrl+U and a carriage return always follow, and Ctrl+C is
\* written only when no prompt appears in what was captured.
C32_HelpProtocol ==
  /\ [](\A t \in Callers :
          PastFirstWrites(t) /\ loc[t].out # "KeyError: session not found"
            /\ EndsInQuery(loc[t].chars) => HelpWrites(t))
  /\ InterruptOnlyWithoutPrompt

\* C32, amended: a line whose last character other than white space is "?"
\* is written as it is, without a line terminator; Ctrl+U and a carriage
\* return always follow, and Ctrl+C is written only when no prompt appears in
\* what was captured.  A line of exactly four characters that begins with
\* "\x" is a control line even when it ends in "?": it is written alone, as
\* the character of its code or as it is, and no Ctrl+U follows.
C32_HelpProtocolButControlLines ==
  /\ [](\A t \in Callers :
          PastFirstWrites(t) /\ loc[t].out # "KeyError: session not found" =>
            /\ (QueryLine(loc[t].chars) /\ ~ControlLine(loc[t].chars)) =>
                 HelpWrites(t)
            /\ ControlLine(loc[t].chars) =>
                 /\ loc[t].sent[1] = Raw(RawWrite(loc[t].chars))
                 /\ Positions(loc[t].sent, Raw("^U")) = {}
                 /\ \A i \in 2..Len(loc[t].sent) : loc[t].sent[i] = Raw(" "))
  /\ InterruptOnlyWithoutPrompt

\* a help query has ended after Ctrl+U, Enter, no prompt, Ctrl+C and Enter
C32_Witness ==
  \E t \in Callers :
    /\ Sending(t) /\ pc[t] = "ret" /\ loc[t].out = "ok"
    /\ loc[t].chars = <<"3", " ", "?">>
    /\ HelpWrites(t)
    /\ Positions(loc[t].sent, Raw("^C")) # {}

(***************************************************************************)
(* C33  a channel closed under a call in flight                            *)
(***************************************************************************)
\* the call of t found its child under the lock and then wrote to it or read
\* from it after close(force=True) had been called on that child
UsedAfterClose(t) == Sending(t) /\ loc[t].out = "closed file"

\* C33: in every interleaving of send_line and close_session on different
\* threads, no call writes to or reads from a child after that child has
\* been closed.
C33_NoUseAfterClose == \A t \in Threads : ~UsedAfterClose(t)

(***************************************************************************)
(* C34  when a candidate secret is written                                 *)
(***************************************************************************)
\* the call of t has written a candidate secret and waits for its answer;
\* loc[t].ev is the event classified just before that write
CandidateWritten(t) == pc[t] = "e_cand"

\* C34: during escalation a candidate secret is written only when the most
\* recent classified event is a password prompt; after a timeout or any
\* other event no further candidate is sent.
C34_CandidateOnlyAtPasswordPrompt ==
  \A t \in Callers : CandidateWritten(t) => loc[t].ev = "PASS"

(***************************************************************************)
(* C35  the prompt escalation ends at                                      *)
(***************************************************************************)
\* create_session has returned a session after writing an enable command
EscalatedSession(t) ==
  /\ loc[t].op = "create_session"
  /\ pc[t] = "ret"
  /\ loc[t].out = "ok"
  /\ EnableSent(t)

\* C35: whenever escalation reports success after an enable command was
\* sent, the last prompt observed is a privileged prompt ('#'); a '>' that
\* answers the enable command or a candidate secret is not a success.
C35_SuccessOnlyAtPrivilegedPrompt ==
  \A t \in Callers : EscalatedSession(t) => loc[t].after = "#"

(***************************************************************************)
(* C36  a batch after the peer has closed                                  *)
(***************************************************************************)
\* a wait of _run_one_command has ended with EOF earlier in this call
PeerClosedInCommand == b_loc.eof
\* a command of the list has been written since and waits for its answer
LaterCommandWritten == b_pc = "b_wait"
NormalReport        == b_pc = "ret" /\ b_loc.out = "ok"

\* C36: once a peer-close has been observed while a command is executing, no
\* later command of the list is written to the channel and the call does not
\* return a normal report.
C36_PeerCloseEndsBatch ==
  PeerClosedInCommand => ~LaterCommandWritten /\ ~NormalReport

(***************************************************************************)
(* C37  deprovisioning the admin account                                   *)
(***************************************************************************)
\* the call in progress is deprovision_user_on_olt for the account it would
\* log in with
DeprovisionsAdmin ==
  b_loc.req.op = "deprovision" /\ b_loc.req.username = AdminUser
DeleteAdmin == "no user-name " \o AdminUser
\* the deletion of the admin account is among the lines written or previewed
AdminDeletionOut ==
  \/ \E i \in 1..Len(b_loc.sent) : b_loc.sent[i].text = DeleteAdmin
  \/ \E i \in 1..Len(b_loc.text) : b_loc.text[i] = DeleteAdmin

\* C37: deprovision_user_on_olt never sends, nor previews in a dry run, the
\* deletion of the admin account: with the admin user's name it raises
\* before a channel is spawned and before a command list is returned.
C37_AdminNeverDeprovisioned ==
  /\ ~AdminDeletionOut
  /\ DeprovisionsAdmin =>
       /\ b_loc.child = NoChild
       /\ b_loc.commands = <<>>
       /\ b_loc.text = <<>>
       /\ b_pc = "ret"
       /\ b_loc.out \in {"RuntimeError: Refuse to delete admin_user",
                          "RuntimeError: OLT_ADMIN_PASSWORD not set"}

\* a dry run asked to delete the admin account has been refused
C37_Witness ==
  /\ DeprovisionsAdmin
  /\ b_loc.req.dry_run
  /\ b_pc = "ret"
  /\ b_loc.out = "RuntimeError: Refuse to delete admin_user"

====
